---- MODULE Spec2Model ----
(***************************************************************************)
(* POTA Notification: the detection / filter / dispatch pipeline of        *)
(* src/main.js (processSpots and the handlers around it) and the filter    *)
(* engine of src/filter.js.                                                *)
(*                                                                         *)
(* JavaScript values are represented as follows.                           *)
(*   string            a sequence of one-character strings                 *)
(*   null / undefined  Undefined, where a string is expected;              *)
(*                     Null, where an object is expected                   *)
(*   object            a record; a key the object lacks is a key that is   *)
(*                     not in the record's DOMAIN                          *)
(*   a string that is only ever compared whole (a condition's type, a      *)
(*   field's operator) is the one-element sequence holding the word        *)
(***************************************************************************)
EXTENDS Integers, Sequences, FiniteSets, TLC

VARIABLES
    filterConfig,          \* main.js:18  let filterConfig
    notificationSettings,  \* main.js:19  let notificationSettings
    knownSpotIds,          \* main.js:25  let knownSpotIds (a Set: insertion ordered, no duplicates)
    appReady,              \* main.js:857 app.whenReady() has run
    cycles,                \* the processSpots invocations suspended at an await
    effect,                \* what the last step did if it was a step of processSpots, else NoEffect
    insertLog,             \* history: every knownSpotIds.add of the session, in order
    nextSpotId,            \* the feed: the spotId the next new record gets
    call,                  \* the filter function under evaluation and its arguments
    ret                    \* its return value

vars == <<filterConfig, notificationSettings, knownSpotIds, appReady, cycles,
          effect, insertLog, nextSpotId, call, ret>>

pipelineVars == <<filterConfig, notificationSettings, knownSpotIds, appReady,
                  cycles, effect, insertLog, nextSpotId>>

-----------------------------------------------------------------------------
(* Bounds of the model                                                     *)

MaxLen == 2          \* longest field value / pattern enumerated for the matcher
MaxConds == 2        \* most conditions in one field filter
MaxSpotId == 2       \* spot ids of the feed, 1..MaxSpotId
MaxBatch == 2        \* most records in one poll batch
MaxCap == 2          \* largest per-channel cap a saved configuration carries
MaxInFlight == 2     \* most processSpots invocations suspended at the same time
Backlog == 998       \* records of the backlog of the long feed
Block == 40          \* most records in one batch of the backlog
MaxInserted == 1003  \* insertions into knownSpotIds on the long feed
MaxDigits == 4       \* longest frequency and longest activator of the text inputs
MaxPieces == 2       \* most pieces of a template of the text inputs

-----------------------------------------------------------------------------
(* JavaScript values                                                       *)

Undefined == <<"undefined">>
Null == [null |-> TRUE]

\* obj[key] / obj.key : undefined when the object lacks the key
Get(obj, key) == IF key \in DOMAIN obj THEN obj[key] ELSE Undefined

\* !v for a value that is a string, null or undefined
FalsyStr(v) == v = Undefined \/ v = <<>>

\* v || '' for a value that is a string, null or undefined
OrEmpty(v) == IF FalsyStr(v) THEN <<>> ELSE v

\* !v / Boolean(v) for a value that is a boolean or undefined
Truthy(obj, key) == key \in DOMAIN obj /\ obj[key] = TRUE

Min(a, b) == IF a < b THEN a ELSE b

UpperLetters == <<"A", "B", "C", "D", "E", "F", "G", "H", "I", "J", "K", "L", "M",
                  "N", "O", "P", "Q", "R", "S", "T", "U", "V", "W", "X", "Y", "Z">>
LowerLetters == <<"a", "b", "c", "d", "e", "f", "g", "h", "i", "j", "k", "l", "m",
                  "n", "o", "p", "q", "r", "s", "t", "u", "v", "w", "x", "y", "z">>

LowerChar(c) ==
    IF \E i \in DOMAIN UpperLetters : UpperLetters[i] = c
    THEN LowerLetters[CHOOSE i \in DOMAIN UpperLetters : UpperLetters[i] = c]
    ELSE c

UpperChar(c) ==
    IF \E i \in DOMAIN LowerLetters : LowerLetters[i] = c
    THEN UpperLetters[CHOOSE i \in DOMAIN LowerLetters : LowerLetters[i] = c]
    ELSE c

\* String.prototype.toLowerCase / toUpperCase
ToLowerCase(s) == [i \in 1..Len(s) |-> LowerChar(s[i])]
ToUpperCase(s) == [i \in 1..Len(s) |-> UpperChar(s[i])]

\* String.prototype.includes
Includes(text, pattern) ==
    \E i \in 0..(Len(text) - Len(pattern)) :
        SubSeq(text, i + 1, i + Len(pattern)) = pattern

\* String.prototype.split('/')[0] : the part before the first '/'
BeforeSlash(s) ==
    LET slashes == {i \in 1..Len(s) : s[i] = "/"}
    IN  IF slashes = {} THEN s
        ELSE SubSeq(s, 1, (CHOOSE i \in slashes : \A j \in slashes : i <= j) - 1)

\* String.prototype.trim
Trim(s) ==
    LET inked == {i \in 1..Len(s) : s[i] # " "}
    IN  IF inked = {} THEN <<>>
        ELSE SubSeq(s, CHOOSE i \in inked : \A j \in inked : i <= j,
                       CHOOSE i \in inked : \A j \in inked : j <= i)

-----------------------------------------------------------------------------
(* src/filter.js                                                           *)

caseInsensitiveEquals(a, b) ==
    IF a = Undefined \/ b = Undefined THEN FALSE
    ELSE ToLowerCase(a) = ToLowerCase(b)

\* mutant: the pattern is not lowered before the search
caseSensitivePatternContains(text, pattern) ==
    IF text = Undefined \/ pattern = Undefined THEN FALSE
    ELSE Includes(ToLowerCase(text), pattern)

caseInsensitiveContains(text, pattern) ==
    IF text = Undefined \/ pattern = Undefined THEN FALSE
    ELSE Includes(ToLowerCase(text), ToLowerCase(pattern))

normalizeCallsign(callsign) ==
    IF FalsyStr(callsign) THEN <<>>
    ELSE ToUpperCase(Trim(BeforeSlash(callsign)))

\* mutant: the callsigns are compared without upper-casing
callsignsMatchCaseSensitive(activator, spotter) ==
    IF FalsyStr(activator) \/ FalsyStr(spotter) THEN FALSE
    ELSE Trim(BeforeSlash(activator)) = Trim(BeforeSlash(spotter))

callsignsMatch(activator, spotter) ==
    IF FalsyStr(activator) \/ FalsyStr(spotter) THEN FALSE
    ELSE normalizeCallsign(activator) = normalizeCallsign(spotter)

checkConditionMatch(fieldValue, condition) ==
    IF condition = Null \/ FalsyStr(Get(condition, "value")) THEN FALSE
    ELSE IF Get(condition, "type") = <<"exact">>
         THEN caseInsensitiveEquals(fieldValue, condition.value)
    ELSE IF Get(condition, "type") = <<"contains">>
         THEN caseInsensitiveContains(fieldValue, condition.value)
    ELSE FALSE

\* mutant: a condition counts as enabled only when its flag is present and true
IsEnabledWhenFlagged(c) == "enabled" \in DOMAIN c /\ c.enabled = TRUE

\* c.enabled !== false
IsEnabled(c) == ~("enabled" \in DOMAIN c /\ c.enabled = FALSE)

\* fieldFilter.conditions.filter(c => !c.exclude && (c.enabled !== false))
IncludeConditions(fieldFilter) ==
    SelectSeq(fieldFilter.conditions, LAMBDA c : ~Truthy(c, "exclude") /\ IsEnabled(c))

\* fieldFilter.conditions.filter(c => c.exclude && (c.enabled !== false))
ExcludeConditions(fieldFilter) ==
    SelectSeq(fieldFilter.conditions, LAMBDA c : Truthy(c, "exclude") /\ IsEnabled(c))

\* mutant: the operator is ignored, every field filter is an 'or'
applyFieldFilterAlwaysOr(fieldValue, fieldFilter) ==
    IF fieldFilter = Null \/ "conditions" \notin DOMAIN fieldFilter
       \/ Len(fieldFilter.conditions) = 0
    THEN TRUE
    ELSE LET includeConditions == IncludeConditions(fieldFilter)
         IN  IF Len(includeConditions) = 0 THEN TRUE
             ELSE \E i \in DOMAIN includeConditions :
                      checkConditionMatch(fieldValue, includeConditions[i])

applyFieldFilter(fieldValue, fieldFilter) ==
    IF fieldFilter = Null \/ "conditions" \notin DOMAIN fieldFilter
       \/ Len(fieldFilter.conditions) = 0
    THEN TRUE
    ELSE LET includeConditions == IncludeConditions(fieldFilter)
             operator == IF FalsyStr(Get(fieldFilter, "operator"))
                         THEN <<"or">> ELSE fieldFilter.operator
         IN  IF Len(includeConditions) = 0 THEN TRUE
             ELSE IF operator = <<"and">>
                  THEN \A i \in DOMAIN includeConditions :
                           checkConditionMatch(fieldValue, includeConditions[i])
                  ELSE \E i \in DOMAIN includeConditions :
                           checkConditionMatch(fieldValue, includeConditions[i])

fields == <<"reference", "comments", "mode", "frequency">>

\* filterConfig[field] : undefined when the configuration lacks the field
FieldFilterOf(config, field) == IF field \in DOMAIN config THEN config[field] ELSE Null

\* mutant: the exclude loop runs over reference, comments and mode only
ExcludeHitThreeFields(spot, config) ==
    \E k \in 1..3 :
        LET fieldFilter == FieldFilterOf(config, fields[k])
        IN  /\ fieldFilter # Null
            /\ "conditions" \in DOMAIN fieldFilter
            /\ \E i \in DOMAIN ExcludeConditions(fieldFilter) :
                   checkConditionMatch(OrEmpty(Get(spot, fields[k])),
                                       ExcludeConditions(fieldFilter)[i])

\* the exclude loop of applyFilter: some enabled exclude condition matches
ExcludeHit(spot, config) ==
    \E k \in DOMAIN fields :
        LET fieldFilter == FieldFilterOf(config, fields[k])
        IN  /\ fieldFilter # Null
            /\ "conditions" \in DOMAIN fieldFilter
            /\ \E i \in DOMAIN ExcludeConditions(fieldFilter) :
                   checkConditionMatch(OrEmpty(Get(spot, fields[k])),
                                       ExcludeConditions(fieldFilter)[i])

\* the include pass of applyFilter: every field passes its own filter
\* mutant: the comments field is left out of the conjunction
IncludePassWithoutComments(spot, config) ==
    \A k \in {1, 3, 4} :
        applyFieldFilter(OrEmpty(Get(spot, fields[k])), FieldFilterOf(config, fields[k]))

IncludePass(spot, config) ==
    \A k \in DOMAIN fields :
        applyFieldFilter(OrEmpty(Get(spot, fields[k])), FieldFilterOf(config, fields[k]))

applyFilter(spot, config) ==
    IF config = Null THEN TRUE
    ELSE IF Truthy(config, "ignoreOtherSpotters")
            /\ ~callsignsMatch(Get(spot, "activator"), Get(spot, "spotter"))
         THEN FALSE
    ELSE IF ExcludeHit(spot, config) THEN FALSE
    ELSE IncludePass(spot, config)

-----------------------------------------------------------------------------
(* Evaluation of the filter functions on enumerated arguments              *)

NoEffect == [kind |-> "none"]

\* the module-level state of main.js before app.whenReady() fires
Construction ==
    /\ filterConfig = Null
    /\ notificationSettings = [notificationEnabled |-> FALSE, popupEnabled |-> FALSE,
                               soundEnabled |-> FALSE, voicevoxEnabled |-> FALSE]
    /\ knownSpotIds = <<>>
    /\ appReady = FALSE
    /\ cycles = <<>>
    /\ effect = NoEffect
    /\ insertLog = <<>>
    /\ nextSpotId = 1

NoCall == [fn |-> "none"]
NoRet == [done |-> FALSE]
Returned(v) == [done |-> TRUE, value |-> v]

Chars == {"c", "C", "w"}
Strings(n) == UNION {[1..k -> Chars] : k \in 0..n}

MatchTypes == {<<"exact">>, <<"contains">>, <<"regex">>}

\* the conditions handed to checkConditionMatch: value and type present or absent
MatchConditions ==
    {Null}
    \cup {[value |-> v, type |-> t] : v \in Strings(MaxLen), t \in MatchTypes}
    \cup {[value |-> v] : v \in Strings(MaxLen)}
    \cup {[type |-> t] : t \in MatchTypes}

MatchInit ==
    /\ Construction
    /\ ret = NoRet
    /\ call \in {[fn |-> "checkConditionMatch", fieldValue |-> v, condition |-> c] :
                    v \in Strings(MaxLen) \cup {Undefined}, c \in MatchConditions}

CallCheckConditionMatch ==
    /\ call.fn = "checkConditionMatch"
    /\ ret = NoRet
    /\ ret' = Returned(checkConditionMatch(call.fieldValue, call.condition))
    /\ UNCHANGED <<call, pipelineVars>>

MatchNext == CallCheckConditionMatch

SpecMatch == MatchInit /\ [][MatchNext]_vars

\* the two characters are the same letter, whatever their case
SameLetter(a, b) ==
    \/ a = b
    \/ \E i \in DOMAIN UpperLetters : {a, b} = {UpperLetters[i], LowerLetters[i]}

EqualIgnoringCase(a, b) ==
    /\ Len(a) = Len(b)
    /\ \A i \in 1..Len(a) : SameLetter(a[i], b[i])

SubstringIgnoringCase(pattern, text) ==
    \E off \in 0..(Len(text) - Len(pattern)) :
        \A i \in 1..Len(pattern) : SameLetter(text[off + i], pattern[i])

IsAbsentOrEmpty(obj, key) == key \notin DOMAIN obj \/ obj[key] = Undefined \/ obj[key] = <<>>

\* C8: checkConditionMatch is false when condition.value is empty or absent; for
\* type 'exact' it is true exactly when field value and pattern are equal ignoring
\* case; for type 'contains' exactly when the pattern is a substring of the field
\* value ignoring case; an empty or absent field value never matches a non-empty
\* pattern; any other type never matches.
C8_CheckConditionMatch ==
    (ret.done /\ call.fn = "checkConditionMatch") =>
        LET v == call.fieldValue
            c == call.condition
        IN  IF c = Null \/ IsAbsentOrEmpty(c, "value") THEN ret.value = FALSE
            ELSE IF v = Undefined \/ v = <<>> THEN ret.value = FALSE
            ELSE IF "type" \in DOMAIN c /\ c.type = <<"exact">>
                 THEN ret.value = EqualIgnoringCase(v, c.value)
            ELSE IF "type" \in DOMAIN c /\ c.type = <<"contains">>
                 THEN ret.value = SubstringIgnoringCase(c.value, v)
            ELSE ret.value = FALSE

\* an exact match across case, and a contains match across case on a proper substring
C8_Witness ==
    /\ ret.done /\ call.fn = "checkConditionMatch"
    /\ ret.value = TRUE
    /\ call.condition # Null
    /\ Get(call.condition, "type") = <<"contains">>
    /\ call.fieldValue # call.condition.value
    /\ Len(call.fieldValue) > Len(call.condition.value)
    /\ ~Includes(call.fieldValue, call.condition.value)

-----------------------------------------------------------------------------
(* applyFieldFilter on enumerated field filters                            *)

FieldValues == {Undefined, <<>>, <<"c">>, <<"C">>, <<"c", "w">>, <<"w">>}

ConditionFlags ==
    {[x \in {} |-> TRUE],
     [exclude |-> FALSE, enabled |-> TRUE],
     [exclude |-> FALSE, enabled |-> FALSE],
     [exclude |-> TRUE, enabled |-> TRUE],
     [exclude |-> TRUE, enabled |-> FALSE],
     [exclude |-> TRUE]}

ConditionTests ==
    {[value |-> <<"c">>, type |-> <<"exact">>],
     [value |-> <<"c">>, type |-> <<"contains">>],
     [value |-> <<"W">>, type |-> <<"contains">>]}

\* the two records merged into one (their keys are disjoint)
Merge(r1, r2) ==
    [k \in (DOMAIN r1) \cup (DOMAIN r2) |-> IF k \in DOMAIN r1 THEN r1[k] ELSE r2[k]]

FieldConditions == {Merge(t, f) : t \in ConditionTests, f \in ConditionFlags}

ConditionLists == UNION {[1..n -> FieldConditions] : n \in 0..MaxConds}

FieldFilters ==
    {Null, [operator |-> <<"and">>]}
    \cup {[conditions |-> cs, operator |-> op] :
             cs \in ConditionLists, op \in {<<"and">>, <<"or">>}}
    \cup {[conditions |-> cs] : cs \in ConditionLists}

FieldInit ==
    /\ Construction
    /\ ret = NoRet
    /\ call \in {[fn |-> "applyFieldFilter", fieldValue |-> v, fieldFilter |-> ff] :
                    v \in FieldValues, ff \in FieldFilters}

CallApplyFieldFilter ==
    /\ call.fn = "applyFieldFilter"
    /\ ret = NoRet
    /\ ret' = Returned(applyFieldFilter(call.fieldValue, call.fieldFilter))
    /\ UNCHANGED <<call, pipelineVars>>

FieldNext == CallApplyFieldFilter

SpecField == FieldInit /\ [][FieldNext]_vars

\* the positions of the conditions that are enabled and not exclude conditions
EnabledIncludes(conditions) ==
    {i \in DOMAIN conditions :
        /\ ~("exclude" \in DOMAIN conditions[i] /\ conditions[i].exclude = TRUE)
        /\ ~("enabled" \in DOMAIN conditions[i] /\ conditions[i].enabled = FALSE)}

\* C7: applyFieldFilter returns true when the field filter is absent, has zero
\* conditions, or has no enabled non-exclude condition; otherwise with operator
\* 'and' it returns true exactly when every enabled include condition matches,
\* and with operator 'or' (the default when the operator is absent) exactly when
\* at least one does.
C7_ApplyFieldFilter ==
    (ret.done /\ call.fn = "applyFieldFilter") =>
        LET ff == call.fieldFilter
            v == call.fieldValue
        IN  IF ff = Null \/ "conditions" \notin DOMAIN ff THEN ret.value = TRUE
            ELSE IF EnabledIncludes(ff.conditions) = {} THEN ret.value = TRUE
            ELSE IF "operator" \in DOMAIN ff /\ ff.operator = <<"and">>
                 THEN ret.value = (\A i \in EnabledIncludes(ff.conditions) :
                                      checkConditionMatch(v, ff.conditions[i]))
                 ELSE ret.value = (\E i \in EnabledIncludes(ff.conditions) :
                                      checkConditionMatch(v, ff.conditions[i]))

\* an 'and' filter rejected although one enabled include condition matches, next
\* to a disabled and an exclude condition that play no part
C7_Witness ==
    /\ ret.done /\ call.fn = "applyFieldFilter"
    /\ ret.value = FALSE
    /\ call.fieldFilter # Null
    /\ "conditions" \in DOMAIN call.fieldFilter
    /\ Get(call.fieldFilter, "operator") = <<"and">>
    /\ Cardinality(EnabledIncludes(call.fieldFilter.conditions)) = 2
    /\ \E i \in EnabledIncludes(call.fieldFilter.conditions) :
           checkConditionMatch(call.fieldValue, call.fieldFilter.conditions[i])

-----------------------------------------------------------------------------
(* applyFilter on enumerated records and configurations                    *)

CallsignChars == {"a", "A", "/", " "}
Callsigns == UNION {[1..k -> CallsignChars] : k \in 0..MaxLen} \cup {Undefined}

Include(v, t) == [value |-> v, type |-> t, exclude |-> FALSE, enabled |-> TRUE]
Exclude(v, t) == [value |-> v, type |-> t, exclude |-> TRUE, enabled |-> TRUE]
Disabled(c) == [c EXCEPT !.enabled = FALSE]

\* what one field of a configuration may hold; Null stands for a missing key
FieldFilterMenu ==
    {Null,
     [conditions |-> <<[value |-> <<"c">>, type |-> <<"contains">>]>>, operator |-> <<"or">>],
     [conditions |-> <<Exclude(<<"c">>, <<"exact">>)>>, operator |-> <<"or">>],
     [conditions |-> <<Exclude(<<"C">>, <<"contains">>), Include(<<"c">>, <<"contains">>)>>,
      operator |-> <<"and">>],
     [conditions |-> <<Disabled(Exclude(<<"c">>, <<"contains">>)), Include(<<"w">>, <<"exact">>)>>,
      operator |-> <<"or">>],
     [conditions |-> <<Disabled(Include(<<"c">>, <<"exact">>))>>, operator |-> <<"and">>]}

SpotFieldValues == {Undefined, <<"c">>, <<"W">>}

\* configurations with a filter on each of the four fields
FieldConfigs ==
    {[k \in {x \in {"reference", "comments", "mode", "frequency"} : f[x] # Null} |-> f[k]] :
        f \in [{"reference", "comments", "mode", "frequency"} -> FieldFilterMenu]}

FieldSpots ==
    {[k \in {x \in DOMAIN f : f[x] # Undefined} |-> f[k]] :
        f \in [{"reference", "comments", "mode", "frequency"} -> SpotFieldValues]}

\* configurations with the ignoreOtherSpotters option set, unset or missing
CallsignConfigs ==
    {Merge(o, m) :
        o \in {[x \in {} |-> TRUE], [ignoreOtherSpotters |-> TRUE],
               [ignoreOtherSpotters |-> FALSE]},
        m \in {[x \in {} |-> TRUE],
               [mode |-> [conditions |-> <<Include(<<"c">>, <<"exact">>)>>,
                          operator |-> <<"or">>]]}}

CallsignSpots ==
    {Merge([k \in {x \in {"activator", "spotter"} : f[x] # Undefined} |-> f[k]],
           [mode |-> m]) :
        f \in [{"activator", "spotter"} -> Callsigns], m \in {<<"c">>, <<"w">>}}

FilterInit ==
    /\ Construction
    /\ ret = NoRet
    /\ call \in {[fn |-> "applyFilter", spot |-> sp, config |-> cfg] :
                    sp \in FieldSpots, cfg \in FieldConfigs}
                \cup {[fn |-> "applyFilter", spot |-> sp, config |-> cfg] :
                    sp \in CallsignSpots, cfg \in CallsignConfigs}
                \cup {[fn |-> "applyFilter", spot |-> sp, config |-> Null] :
                    sp \in FieldSpots}

CallApplyFilter ==
    /\ call.fn = "applyFilter"
    /\ ret = NoRet
    /\ ret' = Returned(applyFilter(call.spot, call.config))
    /\ UNCHANGED <<call, pipelineVars>>

FilterNext == CallApplyFilter

SpecFilter == FilterInit /\ [][FilterNext]_vars

\* the conditions of a field of the configuration (none when the field is missing)
ConditionsOf(config, field) ==
    IF config # Null /\ field \in DOMAIN config /\ "conditions" \in DOMAIN config[field]
    THEN config[field].conditions ELSE <<>>

\* an enabled exclude condition with a non-empty value that matches the field's value
MatchingExclude(spot, config) ==
    \E k \in DOMAIN fields : \E i \in DOMAIN ConditionsOf(config, fields[k]) :
        LET c == ConditionsOf(config, fields[k])[i]
        IN  /\ "exclude" \in DOMAIN c /\ c.exclude = TRUE
            /\ ~("enabled" \in DOMAIN c /\ c.enabled = FALSE)
            /\ ~IsAbsentOrEmpty(c, "value")
            /\ checkConditionMatch(OrEmpty(Get(spot, fields[k])), c)

\* the fields of the record whose include side fails
FailingFields(spot, config) ==
    {k \in DOMAIN fields :
        ~applyFieldFilter(OrEmpty(Get(spot, fields[k])), FieldFilterOf(config, fields[k]))}

\* C3: if any enabled exclude condition with a non-empty value on any of the four
\* fields matches that field's value, applyFilter returns false, whatever the
\* include conditions, the operators and the other fields are.
C3_ExcludeWins ==
    (ret.done /\ call.fn = "applyFilter" /\ MatchingExclude(call.spot, call.config))
        => ret.value = FALSE

\* rejected by an exclude condition on the last field although every field's
\* include side passes
C3_Witness ==
    /\ ret.done /\ call.fn = "applyFilter"
    /\ ret.value = FALSE
    /\ MatchingExclude(call.spot, call.config)
    /\ FailingFields(call.spot, call.config) = {}
    /\ \E i \in DOMAIN ConditionsOf(call.config, "frequency") :
           /\ Truthy(ConditionsOf(call.config, "frequency")[i], "exclude")
           /\ checkConditionMatch(OrEmpty(Get(call.spot, "frequency")),
                                  ConditionsOf(call.config, "frequency")[i])
    /\ \A k \in 1..3 : \A i \in DOMAIN ConditionsOf(call.config, fields[k]) :
           ~Truthy(ConditionsOf(call.config, fields[k])[i], "exclude")

\* C4: applyFilter accepts a record only if applyFieldFilter passes for every one
\* of the four fields.
C4_CrossFieldAnd ==
    (ret.done /\ call.fn = "applyFilter" /\ ret.value = TRUE)
        => FailingFields(call.spot, call.config) = {}

\* rejected because the comments field alone fails its include side
C4_Witness ==
    /\ ret.done /\ call.fn = "applyFilter"
    /\ ret.value = FALSE
    /\ call.config # Null
    /\ ~Truthy(call.config, "ignoreOtherSpotters")
    /\ ~MatchingExclude(call.spot, call.config)
    /\ FailingFields(call.spot, call.config) = {2}
    /\ \A k \in {1, 3, 4} : ConditionsOf(call.config, fields[k]) # <<>>

\* a callsign as the claim normalizes it: the part before the first '/', trimmed,
\* upper-cased; nothing is left of an absent callsign
NormalizedCallsign(callsign) ==
    IF callsign = Undefined THEN <<>> ELSE ToUpperCase(Trim(BeforeSlash(callsign)))

\* the configuration with its ignoreOtherSpotters option switched off
WithoutIgnore(config) == [config EXCEPT !.ignoreOtherSpotters = FALSE]

\* C5 as claimed: with ignoreOtherSpotters enabled, for every pair of activator and
\* spotter (absent and empty ones included) the record is rejected at this step
\* exactly when the two callsigns differ after normalization.
C5_AsClaimed ==
    (ret.done /\ call.fn = "applyFilter" /\ call.config # Null
     /\ Truthy(call.config, "ignoreOtherSpotters")) =>
        IF NormalizedCallsign(Get(call.spot, "activator"))
               # NormalizedCallsign(Get(call.spot, "spotter"))
        THEN ret.value = FALSE
        ELSE ret.value = applyFilter(call.spot, WithoutIgnore(call.config))

\* C5 amended: with ignoreOtherSpotters enabled the record is rejected at this step
\* exactly when the activator or the spotter is absent or empty, or the two differ
\* after normalization; a record with two non-empty callsigns that are equal after
\* normalization gets the verdict of the rest of the filter.
C5_IgnoreOtherSpotters ==
    (ret.done /\ call.fn = "applyFilter" /\ call.config # Null
     /\ Truthy(call.config, "ignoreOtherSpotters")) =>
        IF \/ IsAbsentOrEmpty(call.spot, "activator")
           \/ IsAbsentOrEmpty(call.spot, "spotter")
           \/ NormalizedCallsign(call.spot.activator) # NormalizedCallsign(call.spot.spotter)
        THEN ret.value = FALSE
        ELSE ret.value = applyFilter(call.spot, WithoutIgnore(call.config))

\* accepted with the option on: the callsigns differ as written ("a/ " and " A")
\* and are equal after normalization
C5_Witness ==
    /\ ret.done /\ call.fn = "applyFilter"
    /\ call.config # Null /\ Truthy(call.config, "ignoreOtherSpotters")
    /\ ret.value = TRUE
    /\ ToUpperCase(call.spot.activator) # ToUpperCase(call.spot.spotter)
    /\ NormalizedCallsign(call.spot.activator) # <<>>
    /\ \E i \in DOMAIN call.spot.activator : call.spot.activator[i] = "/"
    /\ \E i \in DOMAIN call.spot.spotter : call.spot.spotter[i] = " "

\* the configuration without its disabled conditions
StripDisabled(config) ==
    IF config = Null THEN Null
    ELSE [k \in DOMAIN config |->
            IF k \in {"reference", "comments", "mode", "frequency"}
               /\ "conditions" \in DOMAIN config[k]
            THEN [config[k] EXCEPT !.conditions =
                     SelectSeq(@, LAMBDA c : ~("enabled" \in DOMAIN c /\ c.enabled = FALSE))]
            ELSE config[k]]

\* the configuration with the enabled flag set to e in every condition, or only in
\* the conditions without the flag
SetEnabled(config, e, onlyMissing) ==
    IF config = Null THEN Null
    ELSE [k \in DOMAIN config |->
            IF k \in {"reference", "comments", "mode", "frequency"}
               /\ "conditions" \in DOMAIN config[k]
            THEN [config[k] EXCEPT !.conditions =
                     [i \in DOMAIN @ |->
                        IF ~onlyMissing \/ "enabled" \notin DOMAIN @[i]
                        THEN [x \in (DOMAIN @[i]) \cup {"enabled"} |->
                                 IF x = "enabled" THEN e ELSE @[i][x]]
                        ELSE @[i]]]
            ELSE config[k]]

HasDisabled(config) ==
    \E k \in DOMAIN fields : \E i \in DOMAIN ConditionsOf(config, fields[k]) :
        LET c == ConditionsOf(config, fields[k])[i]
        IN  "enabled" \in DOMAIN c /\ c.enabled = FALSE

\* C9: disabled conditions are inert: the verdict of a configuration is the verdict
\* of the same configuration without its disabled conditions, so two
\* configurations that differ only in disabled conditions agree; and a condition
\* without enabled flag counts as enabled.
C9_DisabledInert ==
    (ret.done /\ call.fn = "applyFilter") =>
        /\ ret.value = applyFilter(call.spot, StripDisabled(call.config))
        /\ ret.value = applyFilter(call.spot,
               SetEnabled(call.config, TRUE, TRUE))

\* a configuration with a disabled condition that would change the verdict if it
\* were enabled
C9_Witness ==
    /\ ret.done /\ call.fn = "applyFilter"
    /\ HasDisabled(call.config)
    /\ ret.value = TRUE
    /\ ~applyFilter(call.spot, SetEnabled(call.config, TRUE, FALSE))

-----------------------------------------------------------------------------
(* src/voicevox.js : the text of an utterance                              *)

Digits == <<"0", "1", "2", "3", "4", "5", "6", "7", "8", "9">>

IsDigit(ch) == \E d \in DOMAIN Digits : Digits[d] = ch

DigitValue(ch) == (CHOOSE d \in DOMAIN Digits : Digits[d] = ch) - 1

\* \s of a regular expression, as far as the inputs go
Whitespace == {" ", "\t"}

\* the words of the units, of the portable marker and of numberMap
Megahertz == <<"メ", "ガ", "ヘ", "ル", "ツ">>
Kilohertz == <<"キ", "ロ", "ヘ", "ル", "ツ">>
PortableWord == <<"ポ", "ー", "タ", "ブ", "ル">>

numberMap ==
    <<<<"ゼ", "ロ">>, <<"ワ", "ン">>, <<"ツ", "ー">>, <<"ス", "リ", "ー">>,
      <<"フ", "ォ", "ー">>, <<"フ", "ァ", "イ", "ブ">>, <<"シ", "ッ", "ク", "ス">>,
      <<"セ", "ブ", "ン">>, <<"エ", "イ", "ト">>, <<"ナ", "イ", "ン">>>>

\* '[' + name + ']' for the field names of the placeholders
Placeholder(name) ==
    CASE name = "reference" -> <<"[", "r", "e", "f", "e", "r", "e", "n", "c", "e", "]">>
      [] name = "frequency" -> <<"[", "f", "r", "e", "q", "u", "e", "n", "c", "y", "]">>
      [] name = "mode" -> <<"[", "m", "o", "d", "e", "]">>
      [] name = "activator" -> <<"[", "a", "c", "t", "i", "v", "a", "t", "o", "r", "]">>
      [] name = "comments" -> <<"[", "c", "o", "m", "m", "e", "n", "t", "s", "]">>
      [] name = "name" -> <<"[", "n", "a", "m", "e", "]">>
      [] name = "locationDesc" ->
             <<"[", "l", "o", "c", "a", "t", "i", "o", "n", "D", "e", "s", "c", "]">>

\* '[reference] [frequency] [mode] [activator] [comments]'
DefaultTemplate ==
    Placeholder("reference") \o <<" ">> \o Placeholder("frequency") \o <<" ">>
        \o Placeholder("mode") \o <<" ">> \o Placeholder("activator") \o <<" ">>
        \o Placeholder("comments")

MatchAt(str, pattern, i) ==
    /\ i + Len(pattern) - 1 <= Len(str)
    /\ \A k \in DOMAIN pattern : str[i + k - 1] = pattern[k]

\* the replacement string of String.prototype.replace for the match of n
\* characters at i of str: $$ is $, $& the match, $` the text before it, $' the
\* text after it (the patterns have no groups, so $1 stays as it is)
RECURSIVE Expand(_, _, _, _, _)
Expand(replacement, j, str, i, n) ==
    IF j > Len(replacement) THEN <<>>
    ELSE IF replacement[j] = "$" /\ j < Len(replacement)
              /\ replacement[j + 1] \in {"$", "&", "`", "'"}
         THEN (CASE replacement[j + 1] = "$" -> <<"$">>
                 [] replacement[j + 1] = "&" -> SubSeq(str, i, i + n - 1)
                 [] replacement[j + 1] = "`" -> SubSeq(str, 1, i - 1)
                 [] replacement[j + 1] = "'" -> SubSeq(str, i + n, Len(str)))
              \o Expand(replacement, j + 2, str, i, n)
         ELSE <<replacement[j]>> \o Expand(replacement, j + 1, str, i, n)

\* str.replace(/pattern/g, replacement) for a literal pattern, from i on
RECURSIVE ReplaceFrom(_, _, _, _)
ReplaceFrom(str, pattern, replacement, i) ==
    IF i > Len(str) THEN <<>>
    ELSE IF MatchAt(str, pattern, i)
         THEN Expand(replacement, 1, str, i, Len(pattern))
                  \o ReplaceFrom(str, pattern, replacement, i + Len(pattern))
         ELSE <<str[i]>> \o ReplaceFrom(str, pattern, replacement, i + 1)

ReplaceAll(str, pattern, replacement) == ReplaceFrom(str, pattern, replacement, 1)

\* text.replace(/[0-9]/g, (match) => numberMap[match] || match)
RECURSIVE ReplaceDigits(_)
ReplaceDigits(text) ==
    IF text = <<>> THEN <<>>
    ELSE (IF IsDigit(Head(text)) THEN numberMap[DigitValue(Head(text)) + 1]
                                 ELSE <<Head(text)>>)
         \o ReplaceDigits(Tail(text))

convertNumbersToEnglish(text) ==
    IF FalsyStr(text) THEN text ELSE ReplaceDigits(text)

\* parseFloat for a string of digits with something after them: the value of the
\* digits in front, NotANumber when there is none
NotANumber == -1

RECURSIVE DigitsValue(_, _, _)
DigitsValue(str, i, acc) ==
    IF i > Len(str) \/ ~IsDigit(str[i]) THEN acc
    ELSE DigitsValue(str, i + 1, 10 * acc + DigitValue(str[i]))

parseFloat(str) ==
    IF str = <<>> \/ ~IsDigit(str[1]) THEN NotANumber ELSE DigitsValue(str, 1, 0)

\* String(n) for a natural number
RECURSIVE NumberToString(_)
NumberToString(n) ==
    IF n < 10 THEN <<Digits[n + 1]>>
    ELSE NumberToString(n \div 10) \o <<Digits[(n % 10) + 1]>>

\* mutant: two decimal places
ThousandthToFixed2(khz) ==
    IF khz = NotANumber THEN <<"N", "a", "N">>
    ELSE NumberToString(khz \div 1000) \o <<".">>
             \o <<Digits[((khz % 1000) \div 100) + 1], Digits[((khz % 100) \div 10) + 1]>>

\* (khz / 1000).toFixed(3) for a whole number of kilohertz
ThousandthToFixed3(khz) ==
    IF khz = NotANumber THEN <<"N", "a", "N">>
    ELSE NumberToString(khz \div 1000) \o <<".">>
             \o <<Digits[((khz % 1000) \div 100) + 1], Digits[((khz % 100) \div 10) + 1],
                  Digits[(khz % 10) + 1]>>

\* lines 282-294: what [frequency] is replaced with
FrequencyText(spot, voicevoxSettings) ==
    LET frequency == OrEmpty(Get(spot, "frequency"))
    IN  IF frequency = <<>> THEN <<>>
        ELSE IF Truthy(voicevoxSettings, "mhzEnabled")
             THEN ThousandthToFixed3(parseFloat(frequency)) \o Megahertz
             ELSE frequency \o Kilohertz

\* mutant: the digits are spelled out only when the portable marker is off
ActivatorTextEitherOr(spot, voicevoxSettings) ==
    LET activator == OrEmpty(Get(spot, "activator"))
    IN  IF Truthy(voicevoxSettings, "portableEnabled")
        THEN ReplaceAll(activator, <<"/">>, PortableWord)
        ELSE IF Truthy(voicevoxSettings, "numberEnglishEnabled")
             THEN convertNumbersToEnglish(activator)
             ELSE activator

\* lines 300-306: what [activator] is replaced with
ActivatorText(spot, voicevoxSettings) ==
    LET activator == OrEmpty(Get(spot, "activator"))
        portable == IF Truthy(voicevoxSettings, "portableEnabled")
                    THEN ReplaceAll(activator, <<"/">>, PortableWord)
                    ELSE activator
    IN  IF Truthy(voicevoxSettings, "numberEnglishEnabled")
        THEN convertNumbersToEnglish(portable)
        ELSE portable

\* template.replace(/\s+/g, ' ')
RECURSIVE CollapseWhitespace(_, _)
CollapseWhitespace(str, i) ==
    IF i > Len(str) THEN <<>>
    ELSE IF str[i] \in Whitespace
         THEN (IF i > 1 /\ str[i - 1] \in Whitespace THEN <<>> ELSE <<" ">>)
              \o CollapseWhitespace(str, i + 1)
         ELSE <<str[i]>> \o CollapseWhitespace(str, i + 1)

generateVoicevoxText(spot, voicevoxSettings) ==
    LET template0 == IF FalsyStr(Get(voicevoxSettings, "textTemplate"))
                     THEN DefaultTemplate ELSE voicevoxSettings.textTemplate
        template1 == ReplaceAll(template0, Placeholder("reference"),
                                OrEmpty(Get(spot, "reference")))
        template2 == ReplaceAll(template1, Placeholder("frequency"),
                                FrequencyText(spot, voicevoxSettings))
        template3 == ReplaceAll(template2, Placeholder("mode"), OrEmpty(Get(spot, "mode")))
        template4 == ReplaceAll(template3, Placeholder("activator"),
                                ActivatorText(spot, voicevoxSettings))
        template5 == ReplaceAll(template4, Placeholder("comments"),
                                OrEmpty(Get(spot, "comments")))
        template6 == ReplaceAll(template5, Placeholder("name"),
                                IF FalsyStr(Get(spot, "name"))
                                THEN OrEmpty(Get(spot, "parkName"))
                                ELSE spot.name)
        template7 == ReplaceAll(template6, Placeholder("locationDesc"),
                                OrEmpty(Get(spot, "locationDesc")))
    IN  Trim(CollapseWhitespace(template7, 1))

-----------------------------------------------------------------------------
(* generateVoicevoxText on bounded inputs                                  *)

FrequencyStrings == UNION {[1..k -> {"0", "1", "4", "7"}] : k \in 0..MaxDigits}

\* records with a frequency in whole kilohertz, an empty one or none, rendered
\* under the template '[frequency]'
FrequencyInputs ==
    {[spot |-> spot, voicevoxSettings |-> voicevoxSettings] :
        spot \in {[frequency |-> f] : f \in FrequencyStrings} \cup {[mode |-> <<"W">>]},
        voicevoxSettings \in {[textTemplate |-> Placeholder("frequency"), mhzEnabled |-> m] :
                                 m \in BOOLEAN}}

ActivatorStrings == UNION {[1..k -> {"J", "1", "8", "/"}] : k \in 0..MaxDigits}

\* callsigns rendered under the template '[activator]' with the two options
ActivatorInputs ==
    {[spot |-> [activator |-> a],
      voicevoxSettings |-> [textTemplate |-> Placeholder("activator"),
                            portableEnabled |-> o, numberEnglishEnabled |-> e]] :
        a \in ActivatorStrings, o \in BOOLEAN, e \in BOOLEAN}

\* the pieces templates are made of: placeholders, a token that is none, blanks
\* and a letter
TemplatePieces ==
    <<Placeholder("reference"), Placeholder("mode"), Placeholder("comments"),
      Placeholder("name"), Placeholder("locationDesc"),
      <<"[", "q", "]">>, <<" ">>, <<"\t">>, <<"x">>>>

RECURSIVE Concat(_)
Concat(seqs) == IF seqs = <<>> THEN <<>> ELSE Head(seqs) \o Concat(Tail(seqs))

Templates ==
    {Concat([i \in DOMAIN choice |-> TemplatePieces[choice[i]]]) :
        choice \in UNION {[1..k -> DOMAIN TemplatePieces] : k \in 0..MaxPieces}}

\* records of the feed: plain fields, fields with blanks, no fields, a park name
\* only, and fields whose text holds a bracket or a dollar sign
TemplateSpots ==
    {[reference |-> <<"c">>, mode |-> <<"W">>, comments |-> <<"a", " ", " ", "b">>,
      name |-> <<"n">>, locationDesc |-> <<"d">>],
     [mode |-> <<>>],
     [reference |-> <<" ", "c", " ">>, parkName |-> <<"p">>],
     [reference |-> Placeholder("mode"), mode |-> <<"W">>],
     [reference |-> <<"c">>, comments |-> <<"$", "&">>, name |-> <<"$", "$">>]}

TemplateInputs ==
    {[spot |-> spot, voicevoxSettings |-> [textTemplate |-> t]] :
        spot \in TemplateSpots, t \in Templates}

TextInit ==
    /\ Construction
    /\ \E input \in FrequencyInputs \cup ActivatorInputs \cup TemplateInputs :
          call = [fn |-> "generateVoicevoxText", spot |-> input.spot,
                  voicevoxSettings |-> input.voicevoxSettings]
    /\ ret = NoRet

CallGenerateVoicevoxText ==
    /\ call.fn = "generateVoicevoxText"
    /\ ~ret.done
    /\ ret' = Returned(generateVoicevoxText(call.spot, call.voicevoxSettings))
    /\ UNCHANGED <<call, pipelineVars>>

TextNext == CallGenerateVoicevoxText

SpecText == TextInit /\ [][TextNext]_vars

PlaceholderNames ==
    {"reference", "frequency", "mode", "activator", "comments", "name", "locationDesc"}

\* the text a placeholder stands for: the field of the record, empty when the
\* record lacks it, with the transforms of the options for frequency and activator
FieldText(name, spot, voicevoxSettings) ==
    CASE name = "frequency" -> FrequencyText(spot, voicevoxSettings)
      [] name = "activator" -> ActivatorText(spot, voicevoxSettings)
      [] OTHER -> OrEmpty(Get(spot, name))

\* the template with each placeholder in it replaced by its text, in one pass
RECURSIVE SubstituteOnce(_, _, _, _)
SubstituteOnce(template, i, spot, voicevoxSettings) ==
    IF i > Len(template) THEN <<>>
    ELSE LET here == {name \in PlaceholderNames : MatchAt(template, Placeholder(name), i)}
         IN  IF here = {} THEN <<template[i]>>
                                   \o SubstituteOnce(template, i + 1, spot, voicevoxSettings)
             ELSE LET name == CHOOSE n \in here : TRUE
                  IN  FieldText(name, spot, voicevoxSettings)
                          \o SubstituteOnce(template, i + Len(Placeholder(name)), spot,
                                            voicevoxSettings)

\* whitespace runs are single blanks, and there is none at either end
IsNormalized(str) ==
    /\ \A i \in DOMAIN str : str[i] \in Whitespace => str[i] = " "
    /\ \A i \in 1..(Len(str) - 1) : ~(str[i] = " " /\ str[i + 1] = " ")
    /\ str # <<>> => (str[1] # " " /\ str[Len(str)] # " ")

\* C17, as claimed: the text is the template with every enumerated placeholder in
\* it replaced by the field of the record (empty when missing) and every other
\* bracketed token left as it is, with whitespace runs collapsed and the ends
\* trimmed.
C17_Substitution ==
    (/\ ret.done /\ call.fn = "generateVoicevoxText"
     /\ ~FalsyStr(Get(call.voicevoxSettings, "textTemplate")))
        => /\ IsNormalized(ret.value)
           /\ ret.value = Trim(CollapseWhitespace(
                              SubstituteOnce(call.voicevoxSettings.textTemplate, 1,
                                             call.spot, call.voicevoxSettings), 1))

\* the record with the park name for its name when it has no name (line 313)
Named(spot) ==
    IF FalsyStr(Get(spot, "name")) /\ ~FalsyStr(Get(spot, "parkName"))
    THEN [k \in (DOMAIN spot) \cup {"name"} |-> IF k = "name" THEN spot.parkName ELSE spot[k]]
    ELSE spot

\* C26, as claimed: what is put in for a placeholder is the value of the field as
\* it is: the text is the template with the placeholders found in the template
\* itself replaced, a value that holds a placeholder token or a dollar sequence
\* standing in the output as it is in the record.
C26_LiteralValues ==
    (/\ ret.done /\ call.fn = "generateVoicevoxText"
     /\ ~FalsyStr(Get(call.voicevoxSettings, "textTemplate")))
        => ret.value = Trim(CollapseWhitespace(
                           SubstituteOnce(call.voicevoxSettings.textTemplate, 1,
                                          Named(call.spot), call.voicevoxSettings), 1))

\* the number a string of digits writes
RECURSIVE NumberOf(_)
NumberOf(str) ==
    IF str = <<>> THEN 0
    ELSE 10 * NumberOf(SubSeq(str, 1, Len(str) - 1)) + DigitValue(str[Len(str)])

IsDigits(str) == \A i \in DOMAIN str : IsDigit(str[i])

\* C18: under the template '[frequency]' a frequency of f kHz, written in digits,
\* gives with mhzEnabled the digits of f div 1000, a point, the three digits of
\* f mod 1000 and the megahertz word, and without it the frequency as written and
\* the kilohertz word; an empty or missing frequency gives the empty text.
C18_Frequency ==
    (/\ ret.done /\ call.fn = "generateVoicevoxText"
     /\ Get(call.voicevoxSettings, "textTemplate") = Placeholder("frequency")
     /\ IsDigits(OrEmpty(Get(call.spot, "frequency"))))
        => LET frequency == OrEmpty(Get(call.spot, "frequency"))
               text == ret.value
               point == Len(text) - Len(Megahertz) - 3
           IN  IF frequency = <<>> THEN text = <<>>
               ELSE IF Truthy(call.voicevoxSettings, "mhzEnabled")
                    THEN /\ point > 1
                         /\ text[point] = "."
                         /\ SubSeq(text, point + 4, Len(text)) = Megahertz
                         /\ IsDigits(SubSeq(text, 1, point - 1))
                         /\ IsDigits(SubSeq(text, point + 1, point + 3))
                         /\ 1000 * NumberOf(SubSeq(text, 1, point - 1))
                                + NumberOf(SubSeq(text, point + 1, point + 3))
                              = NumberOf(frequency)
                    ELSE text = frequency \o Kilohertz

\* 7144 gives 7.144 and the megahertz word
C18_Witness ==
    /\ ret.done /\ call.fn = "generateVoicevoxText"
    /\ call.voicevoxSettings.textTemplate = Placeholder("frequency")
    /\ Truthy(call.voicevoxSettings, "mhzEnabled")
    /\ Get(call.spot, "frequency") = <<"7", "1", "4", "4">>
    /\ ret.value = <<"7", ".", "1", "4", "4">> \o Megahertz

\* each character of a callsign as it is spoken under the two options
RECURSIVE Spoken(_, _, _)
Spoken(activator, portableEnabled, numberEnglishEnabled) ==
    IF activator = <<>> THEN <<>>
    ELSE LET ch == Head(activator)
         IN  (IF ch = "/" /\ portableEnabled THEN PortableWord
              ELSE IF IsDigit(ch) /\ numberEnglishEnabled THEN numberMap[DigitValue(ch) + 1]
              ELSE <<ch>>)
             \o Spoken(Tail(activator), portableEnabled, numberEnglishEnabled)

\* C19: under the template '[activator]' the text is the callsign with every '/'
\* replaced by the portable word if portableEnabled, and then every digit
\* replaced by its word if numberEnglishEnabled: with both on, the digits of the
\* callsign with the slashes already replaced are spelled out and neither a '/'
\* nor a digit is left; with one on only that one is applied; with none the
\* callsign is unchanged.
C19_Activator ==
    (/\ ret.done /\ call.fn = "generateVoicevoxText"
     /\ Get(call.voicevoxSettings, "textTemplate") = Placeholder("activator"))
        => LET activator == call.spot.activator
               portableEnabled == call.voicevoxSettings.portableEnabled
               numberEnglishEnabled == call.voicevoxSettings.numberEnglishEnabled
           IN  /\ ret.value = Spoken(Spoken(activator, portableEnabled, FALSE),
                                     FALSE, numberEnglishEnabled)
               /\ (portableEnabled /\ numberEnglishEnabled)
                     => \A i \in DOMAIN ret.value :
                           ret.value[i] # "/" /\ ~IsDigit(ret.value[i])
               /\ (~portableEnabled /\ ~numberEnglishEnabled) => ret.value = activator

\* J1/8 with both options on
C19_Witness ==
    /\ ret.done /\ call.fn = "generateVoicevoxText"
    /\ call.voicevoxSettings.textTemplate = Placeholder("activator")
    /\ call.voicevoxSettings.portableEnabled
    /\ call.voicevoxSettings.numberEnglishEnabled
    /\ call.spot.activator = <<"J", "1", "/", "8">>
    /\ ret.value = <<"J">> \o numberMap[2] \o PortableWord \o numberMap[9]

-----------------------------------------------------------------------------
(* src/main.js : configuration                                             *)

EmptyFieldFilter == [conditions |-> <<>>, operator |-> <<"or">>]

\* the defaults loadConfig falls back to
DefaultConfig ==
    [reference |-> EmptyFieldFilter,
     comments |-> EmptyFieldFilter,
     mode |-> EmptyFieldFilter,
     frequency |-> EmptyFieldFilter,
     ignoreOtherSpotters |-> FALSE,
     notificationSoundPath |-> Undefined,
     maxNotificationCount |-> 0,
     maxPopupCount |-> 0]

DefaultNotificationSettings ==
    [notificationEnabled |-> FALSE, popupEnabled |-> FALSE,
     soundEnabled |-> FALSE, voicevoxEnabled |-> FALSE]

\* mutant: the key is set whether the object has it or not
WithDefaultAlways(obj, key, value) ==
    [k \in (DOMAIN obj) \cup {key} |-> IF k = key THEN value ELSE obj[k]]

\* obj with obj[key] = value when the object lacks the key (=== undefined)
WithDefault(obj, key, value) ==
    IF key \in DOMAIN obj THEN obj
    ELSE [k \in (DOMAIN obj) \cup {key} |-> IF k = key THEN value ELSE obj[k]]

\* what fs.readFile + JSON.parse give: a parsed object, or an error
ReadFailures == {[error |-> "ENOENT"], [error |-> "SyntaxError"]}

loadConfig(file) ==
    IF file \in ReadFailures THEN DefaultConfig
    ELSE WithDefault(WithDefault(WithDefault(WithDefault(file,
             "ignoreOtherSpotters", FALSE),
             "notificationSoundPath", Undefined),
             "maxNotificationCount", 0),
             "maxPopupCount", 0)

loadNotificationSettings(file) ==
    IF file \in ReadFailures THEN DefaultNotificationSettings
    ELSE WithDefault(WithDefault(file, "soundEnabled", FALSE), "voicevoxEnabled", FALSE)

\* a speaker id of the engine; null is Null
SpeakerId(n) == [id |-> n]

\* !obj[key] for a key that holds a speaker id, null or nothing
FalsyId(obj, key) == key \notin DOMAIN obj \/ obj[key] = Null \/ obj[key] = SpeakerId(0)

\* the settings loadVoicevoxSettings falls back to (host, port and the voice
\* parameters are left out)
DefaultVoicevoxSettings ==
    [speakerId |-> Null,
     mhzEnabled |-> FALSE,
     portableEnabled |-> FALSE,
     numberEnglishEnabled |-> FALSE,
     textTemplate |-> DefaultTemplate,
     maxSpotsPerRead |-> 0]

\* the parsed file as it is, or the defaults after any error
loadVoicevoxSettings(file) ==
    IF file \in ReadFailures THEN DefaultVoicevoxSettings ELSE file

\* filterConfig?.key || 0
NumberOrZero(config, key) ==
    IF config = Null \/ key \notin DOMAIN config THEN 0 ELSE config[key]

\* Boolean(filterConfig?.notificationSoundPath)
hasCustomSound(config) ==
    config # Null /\ ~FalsyStr(Get(config, "notificationSoundPath"))

-----------------------------------------------------------------------------
(* src/main.js : processSpots                                              *)

KnownLimit == 1000

Range(seq) == {seq[i] : i \in DOMAIN seq}

\* Array.prototype.slice(0, n) for n > 0
Slice(seq, n) == SubSeq(seq, 1, Min(n, Len(seq)))

\* mutant: a known id is skipped only while there is no configuration
RECURSIVE ProcessLoopNoLookup(_, _, _, _)
ProcessLoopNoLookup(spots, i, config, acc) ==
    IF i > Len(spots) THEN acc
    ELSE LET spot == spots[i]
             spotId == spot.spotId
         IN  IF spotId \in Range(acc.known) /\ config = Null
             THEN ProcessLoopNoLookup(spots, i + 1, config, acc)
             ELSE ProcessLoopNoLookup(spots, i + 1, config,
                     [known |-> IF spotId \in Range(acc.known)
                                THEN acc.known ELSE Append(acc.known, spotId),
                      newIds |-> Append(acc.newIds, spotId),
                      evaluated |-> IF config # Null
                                    THEN Append(acc.evaluated, spotId)
                                    ELSE acc.evaluated,
                      filteredSpots |-> IF config # Null /\ applyFilter(spot, config)
                                        THEN Append(acc.filteredSpots, spot)
                                        ELSE acc.filteredSpots])

\* the for loop of processSpots from record i on; acc carries knownSpotIds and the
\* lists built so far (newIds and evaluated are history: the ids the loop added and
\* the ids it handed to applyFilter)
RECURSIVE ProcessLoop(_, _, _, _)
ProcessLoop(spots, i, config, acc) ==
    IF i > Len(spots) THEN acc
    ELSE LET spot == spots[i]
             spotId == spot.spotId
         IN  IF spotId \in Range(acc.known)
             THEN ProcessLoop(spots, i + 1, config, acc)
             ELSE ProcessLoop(spots, i + 1, config,
                     [known |-> Append(acc.known, spotId),
                      newIds |-> Append(acc.newIds, spotId),
                      evaluated |-> IF config # Null
                                    THEN Append(acc.evaluated, spotId)
                                    ELSE acc.evaluated,
                      filteredSpots |-> IF config # Null /\ applyFilter(spot, config)
                                        THEN Append(acc.filteredSpots, spot)
                                        ELSE acc.filteredSpots])

\* mutant: the eviction keeps the 1000 oldest ids
EvictNewest(known) ==
    IF Len(known) > KnownLimit THEN SubSeq(known, 1, KnownLimit) ELSE known

\* knownSpotIds = new Set(Array.from(knownSpotIds).slice(-1000)) when size > 1000
Evict(known) ==
    IF Len(known) > KnownLimit
    THEN SubSeq(known, Len(known) - KnownLimit + 1, Len(known))
    ELSE known

\* history: the place of the last insertion of spotId in the log of insertions
LastInsertion(spotId, log) ==
    LET at == {j \in DOMAIN log : log[j] = spotId}
    IN  CHOOSE j \in at : \A m \in at : m <= j

\* history: the ids of the batch that an earlier batch had inserted already, each
\* with the number of insertions made since its last one
Resubmitted(spotIds, log) ==
    {[spotId |-> spotId, since |-> Len(log) - LastInsertion(spotId, log)] :
        spotId \in Range(spotIds) \cap Range(log)}

\* one step of a processSpots invocation: where it stands (pc), the filteredSpots
\* it holds, and what the step has put out so far
StepOf(kind, filteredSpots) ==
    [kind |-> kind,
     \* the await the step resumed from ("call" for the step that starts at the call)
     from |-> "call",
     ok |-> TRUE,
     pc |-> "run",
     filteredSpots |-> filteredSpots,
     resubmitted |-> {},
     \* history: filterConfig and notificationSettings as the for loop and the
     \* sound decision after it read them
     loopConfig |-> Null,
     loopSettings |-> DefaultNotificationSettings,
     newIds |-> <<>>,
     evaluated |-> <<>>,
     soundCalls |-> 0,
     sound |-> 0,
     dispatched |-> FALSE,
     maxNotificationCount |-> 0,
     maxPopupCount |-> 0,
     channels |-> DefaultNotificationSettings,
     alerts |-> <<>>,
     popups |-> <<>>,
     \* the calls of showNotification and showPopupNotification that got past their
     \* guard, in the order they were made
     shown |-> <<>>,
     \* the silent option the alerts of the step are shown with
     silent |-> TRUE,
     speechSpots |-> <<>>,
     \* the frame of speakMultipleSpotsWithVoicevox
     speakerId |-> Null,
     maxSpotsPerRead |-> 0,
     spotsToRead |-> <<>>,
     index |-> 0,
     \* history: the ids handed to synthesizeVoicevox so far, and in this step
     synthLog |-> <<>>,
     synth |-> <<>>,
     \* the ids whose playback this step started
     play |-> <<>>,
     aborted |-> FALSE]

\* mutant: each record gets its alert and then its popup
ChannelCallsPerRecord(alerts, popups) ==
    [i \in 1..(Len(alerts) + Len(popups)) |->
        IF i <= 2 * Min(Len(alerts), Len(popups))
        THEN (IF i % 2 = 1 THEN [channel |-> "alert", spotId |-> alerts[(i + 1) \div 2].spotId]
                           ELSE [channel |-> "popup", spotId |-> popups[i \div 2].spotId])
        ELSE (IF Len(alerts) > Len(popups)
              THEN [channel |-> "alert", spotId |-> alerts[i - Len(popups)].spotId]
              ELSE [channel |-> "popup", spotId |-> popups[i - Len(alerts)].spotId])]

\* lines 362-370: the loop over notificationSpots, then the loop over popupSpots
ChannelCalls(alerts, popups) ==
    [i \in DOMAIN alerts |-> [channel |-> "alert", spotId |-> alerts[i].spotId]]
        \o [i \in DOMAIN popups |-> [channel |-> "popup", spotId |-> popups[i].spotId]]

\* mutant: showPopupNotification does not look at popupEnabled
DispatchPopupsUnguarded(c, config, settings) ==
    LET maxNotificationCount == NumberOrZero(config, "maxNotificationCount")
        notificationSpots == IF maxNotificationCount > 0
                             THEN Slice(c.filteredSpots, maxNotificationCount)
                             ELSE c.filteredSpots
        maxPopupCount == NumberOrZero(config, "maxPopupCount")
        popupSpots == IF maxPopupCount > 0
                      THEN Slice(c.filteredSpots, maxPopupCount)
                      ELSE c.filteredSpots
        alerts == IF Truthy(settings, "notificationEnabled") THEN notificationSpots ELSE <<>>
    IN  [c EXCEPT
           !.dispatched = TRUE,
           !.maxNotificationCount = maxNotificationCount,
           !.maxPopupCount = maxPopupCount,
           !.channels = settings,
           !.alerts = alerts,
           !.popups = popupSpots,
           !.shown = ChannelCalls(alerts, popupSpots),
           !.silent = hasCustomSound(config) \/ ~Truthy(settings, "soundEnabled"),
           !.speechSpots = IF Truthy(settings, "voicevoxEnabled")
                           THEN c.filteredSpots ELSE <<>>,
           !.pc = IF Truthy(settings, "voicevoxEnabled") /\ Len(c.filteredSpots) > 0
                 THEN "settings" ELSE "done"]

\* mutant: the popup list is cut with the alert cap
DispatchOneCap(c, config, settings) ==
    LET maxNotificationCount == NumberOrZero(config, "maxNotificationCount")
        notificationSpots == IF maxNotificationCount > 0
                             THEN Slice(c.filteredSpots, maxNotificationCount)
                             ELSE c.filteredSpots
    IN  [c EXCEPT
           !.dispatched = TRUE,
           !.maxNotificationCount = maxNotificationCount,
           !.maxPopupCount = NumberOrZero(config, "maxPopupCount"),
           !.channels = settings,
           !.alerts = IF Truthy(settings, "notificationEnabled")
                      THEN notificationSpots ELSE <<>>,
           !.popups = IF Truthy(settings, "popupEnabled") THEN notificationSpots ELSE <<>>,
           !.speechSpots = IF Truthy(settings, "voicevoxEnabled")
                           THEN c.filteredSpots ELSE <<>>,
           !.pc = IF Truthy(settings, "voicevoxEnabled") /\ Len(c.filteredSpots) > 0
                 THEN "settings" ELSE "done"]

\* lines 350-381: the caps, the alerts, the popups, and the call of the speech
\* channel, run without an await in between
Dispatch(c, config, settings) ==
    LET maxNotificationCount == NumberOrZero(config, "maxNotificationCount")
        notificationSpots == IF maxNotificationCount > 0
                             THEN Slice(c.filteredSpots, maxNotificationCount)
                             ELSE c.filteredSpots
        maxPopupCount == NumberOrZero(config, "maxPopupCount")
        popupSpots == IF maxPopupCount > 0
                      THEN Slice(c.filteredSpots, maxPopupCount)
                      ELSE c.filteredSpots
        alerts == IF Truthy(settings, "notificationEnabled") THEN notificationSpots ELSE <<>>
        popups == IF Truthy(settings, "popupEnabled") THEN popupSpots ELSE <<>>
    IN  [c EXCEPT
           !.dispatched = TRUE,
           !.maxNotificationCount = maxNotificationCount,
           !.maxPopupCount = maxPopupCount,
           !.channels = settings,
           \* showNotification returns at once when the channel is off
           !.alerts = alerts,
           \* showPopupNotification returns at once when the channel is off
           !.popups = popups,
           !.shown = ChannelCalls(alerts, popups),
           \* showNotification: shouldSilent = hasCustomSound || !soundEnabled
           !.silent = hasCustomSound(config) \/ ~Truthy(settings, "soundEnabled"),
           \* speakMultipleSpotsWithVoicevox returns at once when speech is off, and
           \* awaits loadVoicevoxSettings when it is on
           !.speechSpots = IF Truthy(settings, "voicevoxEnabled")
                           THEN c.filteredSpots ELSE <<>>,
           !.pc = IF Truthy(settings, "voicevoxEnabled") /\ Len(c.filteredSpots) > 0
                 THEN "settings" ELSE "done"]

\* mutant: the sound is played once for every filtered record
AfterLoopSoundPerRecord(c, config, settings) ==
    IF Len(c.filteredSpots) = 0 THEN [c EXCEPT !.pc = "done"]
    ELSE IF Truthy(settings, "soundEnabled") /\ hasCustomSound(config)
         THEN [c EXCEPT !.pc = "sound", !.soundCalls = Len(c.filteredSpots)]
         ELSE Dispatch(c, config, settings)

\* mutant: an empty filtered list is handled like any other
AfterLoopAlways(c, config, settings) ==
    IF Truthy(settings, "soundEnabled") /\ hasCustomSound(config)
    THEN [c EXCEPT !.pc = "sound", !.soundCalls = 1]
    ELSE Dispatch(c, config, settings)

\* lines 345-348: nothing to do for an empty list; else handleNotificationSound,
\* which calls playNotificationSound, and is awaited there, when the sound channel
\* is on and a custom sound is configured
AfterLoop(c, config, settings) ==
    IF Len(c.filteredSpots) = 0 THEN [c EXCEPT !.pc = "done"]
    ELSE IF Truthy(settings, "soundEnabled") /\ hasCustomSound(config)
         THEN [c EXCEPT !.pc = "sound", !.soundCalls = 1]
         ELSE Dispatch(c, config, settings)

\* the record the feed holds under a spot id: an immutable snapshot
SpotOf(id) ==
    [spotId |-> id,
     activator |-> <<"A">>,
     spotter |-> IF id % 3 = 0 THEN <<"a", "/">> ELSE <<"A">>,
     reference |-> <<"c">>,
     mode |-> IF id % 2 = 1 THEN <<"c">> ELSE <<"W">>,
     frequency |-> <<"w">>]

RemoveAt(seq, i) == SubSeq(seq, 1, i - 1) \o SubSeq(seq, i + 1, Len(seq))

\* what a suspended invocation keeps: its filteredSpots and where it resumes
Suspended(c) ==
    [pc |-> c.pc,
     filteredSpots |-> c.filteredSpots,
     loopConfig |-> c.loopConfig,
     loopSettings |-> c.loopSettings,
     maxSpotsPerRead |-> c.maxSpotsPerRead,
     spotsToRead |-> c.spotsToRead,
     index |-> c.index,
     synthLog |-> c.synthLog]

\* the step in which a suspended invocation goes on, the awaited call having
\* succeeded (ok) or failed
Resumed(cycle, ok) ==
    [StepOf("resume", cycle.filteredSpots)
        EXCEPT !.from = cycle.pc,
               !.ok = ok,
               !.loopConfig = cycle.loopConfig,
               !.loopSettings = cycle.loopSettings,
               !.maxSpotsPerRead = cycle.maxSpotsPerRead,
               !.spotsToRead = cycle.spotsToRead,
               !.index = cycle.index,
               !.synthLog = cycle.synthLog]

\* the step ends at an await or at the return of processSpots, which evicts first;
\* k is the invocation's place in cycles, 0 for one that just started
EndStep(c, known, k) ==
    /\ effect' = c
    /\ knownSpotIds' = IF c.pc = "done" THEN Evict(known) ELSE known
    /\ cycles' = IF c.pc = "done"
                 THEN (IF k = 0 THEN cycles ELSE RemoveAt(cycles, k))
                 ELSE (IF k = 0 THEN Append(cycles, Suspended(c))
                                ELSE [cycles EXCEPT ![k] = Suspended(c)])

\* app.whenReady(): loadConfig, loadNotificationSettings, createMainWindow,
\* setupApiMonitoring, setupIpcHandlers
AppReady(configFiles, settingsFiles) ==
    /\ ~appReady
    /\ \E file \in configFiles : filterConfig' = loadConfig(file)
    /\ \E file \in settingsFiles : notificationSettings' = loadNotificationSettings(file)
    /\ appReady' = TRUE
    /\ effect' = NoEffect
    /\ UNCHANGED <<knownSpotIds, cycles, insertLog, nextSpotId, call, ret>>

\* checkForNewSpots fetched the batch and calls processSpots: the for loop, and on
\* until the first await or the return
Poll(batches) ==
    /\ appReady
    /\ Len(cycles) < MaxInFlight
    /\ \E ids \in batches :
         LET spots == [i \in DOMAIN ids |-> SpotOf(ids[i])]
             r == ProcessLoop(spots, 1, filterConfig,
                              [known |-> knownSpotIds, newIds |-> <<>>,
                               evaluated |-> <<>>, filteredSpots |-> <<>>])
             c == [StepOf("loop", r.filteredSpots)
                      EXCEPT !.resubmitted = Resubmitted(ids, insertLog),
                             !.loopConfig = filterConfig,
                             !.loopSettings = notificationSettings,
                             !.newIds = r.newIds,
                             !.evaluated = r.evaluated]
         IN  /\ insertLog' = insertLog \o r.newIds
             /\ nextSpotId' = IF \E i \in DOMAIN ids : ids[i] >= nextSpotId
                              THEN 1 + CHOOSE m \in Range(ids) : \A x \in Range(ids) : x <= m
                              ELSE nextSpotId
             /\ EndStep(AfterLoop(c, filterConfig, notificationSettings), r.known, 0)
    /\ UNCHANGED <<filterConfig, notificationSettings, appReady, call, ret>>

\* playNotificationSound settles (played, or the file is missing): the invocation
\* resumes after await handleNotificationSound()
SoundDoneAt(k) ==
    /\ k \in DOMAIN cycles
    /\ cycles[k].pc = "sound"
    /\ \E played \in BOOLEAN :
         EndStep(Dispatch([Resumed(cycles[k], played)
                              EXCEPT !.sound = IF played THEN 1 ELSE 0],
                          filterConfig, notificationSettings),
                 knownSpotIds, k)
    /\ UNCHANGED <<filterConfig, notificationSettings, appReady, insertLog,
                   nextSpotId, call, ret>>

SoundDone == \E k \in DOMAIN cycles : SoundDoneAt(k)

\* the loop of speakMultipleSpotsWithVoicevox goes on to the entry after
\* c.index: the next call of synthesizeVoicevox, or the end of the loop
NextEntry(c) ==
    IF c.index < Len(c.spotsToRead)
    THEN LET spot == c.spotsToRead[c.index + 1]
         IN  [c EXCEPT !.index = c.index + 1,
                       !.synth = <<spot.spotId>>,
                       !.synthLog = Append(c.synthLog, spot.spotId),
                       !.pc = "synth"]
    ELSE [c EXCEPT !.pc = "done"]

\* lines 380-397: the settings are there; without a speaker the function returns,
\* else it cuts the list and calls synthesizeVoicevox for the first entry
SpeechStart(c, voicevoxSettings) ==
    IF FalsyId(voicevoxSettings, "speakerId")
    THEN [c EXCEPT !.speakerId = IF "speakerId" \in DOMAIN voicevoxSettings
                                 THEN voicevoxSettings.speakerId ELSE Null,
                   !.pc = "done"]
    ELSE LET maxSpotsPerRead == NumberOrZero(voicevoxSettings, "maxSpotsPerRead")
         IN  NextEntry([c EXCEPT
                 !.speakerId = voicevoxSettings.speakerId,
                 !.maxSpotsPerRead = maxSpotsPerRead,
                 !.spotsToRead = IF maxSpotsPerRead > 0
                                 THEN Slice(c.filteredSpots, maxSpotsPerRead)
                                 ELSE c.filteredSpots,
                 !.index = 0])

\* mutant: a synthesis request that fails or times out never returns
AfterSynthesisOrHang(c) ==
    IF c.ok
    THEN [c EXCEPT !.play = <<c.spotsToRead[c.index].spotId>>, !.pc = "play"]
    ELSE [c EXCEPT !.pc = "pending"]

\* mutant: a failed synthesis ends the loop
AfterSynthesisOrStop(c) ==
    IF c.ok
    THEN [c EXCEPT !.play = <<c.spotsToRead[c.index].spotId>>, !.pc = "play"]
    ELSE [c EXCEPT !.pc = "done"]

\* lines 411-435: synthesizeVoicevox has returned; with audio data the playback
\* starts and is awaited, after a failure the loop goes on
AfterSynthesis(c) ==
    IF c.ok
    THEN [c EXCEPT !.play = <<c.spotsToRead[c.index].spotId>>, !.pc = "play"]
    ELSE NextEntry(c)

\* lines 414-438: the playback has ended and the loop goes on, or it has failed
\* and the catch around the loop ends the function
AfterPlayback(c) ==
    IF c.ok THEN NextEntry(c) ELSE [c EXCEPT !.aborted = TRUE, !.pc = "done"]

\* loadVoicevoxSettings settles in speakMultipleSpotsWithVoicevox
SpeechSettingsLoadedAt(k, voicevoxFiles) ==
    /\ k \in DOMAIN cycles
    /\ cycles[k].pc = "settings"
    /\ \E file \in voicevoxFiles :
         EndStep(SpeechStart(Resumed(cycles[k], TRUE), loadVoicevoxSettings(file)),
                 knownSpotIds, k)
    /\ UNCHANGED <<filterConfig, notificationSettings, appReady, insertLog,
                   nextSpotId, call, ret>>

SpeechSettingsLoaded(voicevoxFiles) ==
    \E k \in DOMAIN cycles : SpeechSettingsLoadedAt(k, voicevoxFiles)

\* synthesizeVoicevox settles: audio data, or success: false after an HTTP error,
\* an unreachable engine or a timeout
SynthesisDoneAt(k) ==
    /\ k \in DOMAIN cycles
    /\ cycles[k].pc = "synth"
    /\ \E success \in BOOLEAN :
         EndStep(AfterSynthesis(Resumed(cycles[k], success)), knownSpotIds, k)
    /\ UNCHANGED <<filterConfig, notificationSettings, appReady, insertLog,
                   nextSpotId, call, ret>>

SynthesisDone == \E k \in DOMAIN cycles : SynthesisDoneAt(k)

\* the playback in the window settles: audio.onended, or audio.onerror
PlaybackDoneAt(k) ==
    /\ k \in DOMAIN cycles
    /\ cycles[k].pc = "play"
    /\ \E ended \in BOOLEAN :
         EndStep(AfterPlayback(Resumed(cycles[k], ended)), knownSpotIds, k)
    /\ UNCHANGED <<filterConfig, notificationSettings, appReady, insertLog,
                   nextSpotId, call, ret>>

PlaybackDone == \E k \in DOMAIN cycles : PlaybackDoneAt(k)

\* saveConfig: the global is assigned first, then the file is written (written) or
\* the write fails; what filterConfig is afterwards, and what is returned
saveConfig(config, written) ==
    [filterConfig |-> config, result |-> [success |-> written]]

\* saveNotificationSettings, likewise
saveNotificationSettings(settings, written) ==
    [notificationSettings |-> settings, result |-> [success |-> written]]

\* ipcMain.handle('save-config'): saveConfig(config)
SaveConfig(configs) ==
    /\ appReady
    /\ \E config \in configs, written \in BOOLEAN :
          filterConfig' = saveConfig(config, written).filterConfig
    /\ effect' = NoEffect
    /\ UNCHANGED <<notificationSettings, knownSpotIds, appReady, cycles, insertLog,
                   nextSpotId, call, ret>>

\* ipcMain.handle('save-notification-settings') and the menu check boxes:
\* saveNotificationSettings(settings)
SaveNotificationSettings(settingsInputs) ==
    /\ appReady
    /\ \E settings \in settingsInputs, written \in BOOLEAN :
          notificationSettings'
              = saveNotificationSettings(settings, written).notificationSettings
    /\ effect' = NoEffect
    /\ UNCHANGED <<filterConfig, knownSpotIds, appReady, cycles, insertLog,
                   nextSpotId, call, ret>>

-----------------------------------------------------------------------------
(* The session on a small feed                                             *)

ModeFilter == [conditions |-> <<Include(<<"c">>, <<"contains">>)>>, operator |-> <<"or">>]

\* the configurations the settings window saves, and null
ConfigInputs ==
    {Null,
     DefaultConfig,
     [DefaultConfig EXCEPT !.mode = ModeFilter, !.maxNotificationCount = 1,
                           !.maxPopupCount = MaxCap, !.notificationSoundPath = <<"w">>],
     [DefaultConfig EXCEPT !.maxNotificationCount = MaxCap, !.maxPopupCount = 1],
     [DefaultConfig EXCEPT !.maxPopupCount = MaxCap, !.notificationSoundPath = <<"w">>]}

ConfigFiles ==
    ReadFailures \cup {[mode |-> ModeFilter], [DefaultConfig EXCEPT !.maxPopupCount = 1]}

SettingsInputs ==
    {DefaultNotificationSettings,
     [DefaultNotificationSettings EXCEPT !.notificationEnabled = TRUE, !.popupEnabled = TRUE],
     [DefaultNotificationSettings EXCEPT !.notificationEnabled = TRUE, !.popupEnabled = TRUE,
                                         !.soundEnabled = TRUE]}

SettingsFiles ==
    ReadFailures \cup {[notificationEnabled |-> TRUE, popupEnabled |-> TRUE]}

\* the batches of the feed: records with distinct ids, in any order
Batches ==
    {ids \in UNION {[1..n -> 1..MaxSpotId] : n \in 0..MaxBatch} :
        \A i, j \in DOMAIN ids : i # j => ids[i] # ids[j]}

Init ==
    /\ Construction
    /\ call = NoCall
    /\ ret = NoRet

Next ==
    \/ AppReady(ConfigFiles, SettingsFiles)
    \/ Poll(Batches)
    \/ SoundDone
    \/ SaveConfig(ConfigInputs)
    \/ SaveNotificationSettings(SettingsInputs)

Spec == Init /\ [][Next]_vars

\* the ids a step handed to a channel
IdsOf(spots) == [i \in DOMAIN spots |-> spots[i].spotId]

\* C6, as claimed: without a filter configuration applyFilter accepts every record
\* and processSpots puts every new record of the batch into the filtered list.
C6_AcceptAll ==
    (effect.kind = "loop" /\ filterConfig = Null)
        => /\ \A i \in DOMAIN effect.newIds : applyFilter(SpotOf(effect.newIds[i]), Null)
           /\ IdsOf(effect.filteredSpots) = effect.newIds

\* C10: with the alert and the popup channel on, the alerts are the first
\* min(maxNotificationCount, n) of the n filtered records (all n when the cap is 0),
\* the popups the first min(maxPopupCount, n) (all n when 0), both in the order of
\* the filtered list, and neither depends on the other cap.
HeadOf(seq, cap) == IF cap = 0 THEN seq ELSE [i \in 1..Min(cap, Len(seq)) |-> seq[i]]

C10_IndependentCaps ==
    (/\ effect.kind # "none"
     /\ effect.dispatched
     /\ effect.channels.notificationEnabled
     /\ effect.channels.popupEnabled)
        => /\ effect.alerts = HeadOf(effect.filteredSpots, effect.maxNotificationCount)
           /\ effect.popups = HeadOf(effect.filteredSpots, effect.maxPopupCount)

\* two filtered records, one alert, two popups
C10_Witness ==
    /\ effect.kind # "none"
    /\ effect.dispatched
    /\ effect.channels.notificationEnabled
    /\ effect.channels.popupEnabled
    /\ Len(effect.filteredSpots) = 2
    /\ effect.maxNotificationCount = 1
    /\ effect.maxPopupCount >= 2
    /\ Len(effect.alerts) = 1
    /\ Len(effect.popups) = 2

\* C11: the step of processSpots that ends the loop calls playNotificationSound
\* once when the filtered list is not empty, the sound channel is on and a custom
\* sound is configured, however long the list is, and not at all otherwise; no
\* later step of the invocation calls it.
C11_SoundOnce ==
    /\ effect.kind = "loop"
          => effect.soundCalls = IF /\ Len(effect.filteredSpots) > 0
                                    /\ Truthy(notificationSettings, "soundEnabled")
                                    /\ hasCustomSound(filterConfig)
                                 THEN 1 ELSE 0
    /\ effect.kind = "resume" => effect.soundCalls = 0

\* two filtered records, one call
C11_Witness ==
    /\ effect.kind = "loop"
    /\ Len(effect.filteredSpots) = 2
    /\ effect.soundCalls = 1
    /\ effect.pc = "sound"

\* C21: the configuration and the settings one invocation of processSpots works
\* with do not change under it: the step that cuts the lists with the caps,
\* calls the alerts and the popups and hands the speech flag on reads the
\* filterConfig and the notificationSettings that its for loop and its sound
\* decision read.
C21_StableConfiguration ==
    (effect.kind # "none" /\ effect.dispatched) =>
        /\ effect.loopConfig = filterConfig
        /\ effect.loopSettings = notificationSettings

\* C27, as claimed: the custom sound is called only with the sound setting on
\* and a sound path configured; the alerts are shown non-silent exactly with the
\* sound setting on and no sound path configured; and no batch has both the
\* custom sound and a non-silent alert.
C27_OneSound ==
    effect.kind # "none" =>
        /\ effect.soundCalls > 0
              => Truthy(notificationSettings, "soundEnabled") /\ hasCustomSound(filterConfig)
        /\ (effect.dispatched /\ effect.alerts # <<>>)
              => /\ ~effect.silent <=> (/\ Truthy(notificationSettings, "soundEnabled")
                                        /\ ~hasCustomSound(filterConfig))
                 /\ ~(effect.from = "sound" /\ ~effect.silent)

-----------------------------------------------------------------------------
(* loadConfig and loadNotificationSettings on the files they may find       *)

Restrict(obj, keys) == [k \in keys |-> obj[k]]

\* a read or parse error, or a saved document with any of its keys left out
LoadConfigFiles ==
    ReadFailures
    \cup {Restrict(config, keys) : config \in ConfigInputs \ {Null},
                                   keys \in SUBSET (DOMAIN DefaultConfig)}

LoadSettingsFiles ==
    ReadFailures
    \cup {Restrict(settings, keys) :
             settings \in SettingsInputs
                          \cup {[DefaultNotificationSettings EXCEPT !.voicevoxEnabled = TRUE]},
             keys \in SUBSET (DOMAIN DefaultNotificationSettings)}

LoadInit ==
    /\ Construction
    /\ \/ \E file \in LoadConfigFiles : call = [fn |-> "loadConfig", file |-> file]
       \/ \E file \in LoadSettingsFiles :
             call = [fn |-> "loadNotificationSettings", file |-> file]
    /\ ret = NoRet

CallLoadConfig ==
    /\ call.fn = "loadConfig"
    /\ ~ret.done
    /\ filterConfig' = loadConfig(call.file)
    /\ ret' = Returned(Undefined)
    /\ UNCHANGED <<notificationSettings, knownSpotIds, appReady, cycles, effect,
                   insertLog, nextSpotId, call>>

CallLoadNotificationSettings ==
    /\ call.fn = "loadNotificationSettings"
    /\ ~ret.done
    /\ notificationSettings' = loadNotificationSettings(call.file)
    /\ ret' = Returned(Undefined)
    /\ UNCHANGED <<filterConfig, knownSpotIds, appReady, cycles, effect,
                   insertLog, nextSpotId, call>>

LoadNext == CallLoadConfig \/ CallLoadNotificationSettings

SpecLoad == LoadInit /\ [][LoadNext]_vars

\* the document completed with the defaults for every key it lacks
Completed(file, defaults) ==
    [k \in DOMAIN defaults |-> IF k \in DOMAIN file THEN file[k] ELSE defaults[k]]

\* C20, as claimed: after an error the loaded object is the defaults, and on a
\* document that lacks keys every missing key takes its default value while the
\* keys present are kept.
C20_AsClaimed ==
    ret.done =>
        /\ call.fn = "loadConfig" =>
              filterConfig = IF call.file \in ReadFailures THEN DefaultConfig
                             ELSE Completed(call.file, DefaultConfig)
        /\ call.fn = "loadNotificationSettings" =>
              notificationSettings = IF call.file \in ReadFailures
                                     THEN DefaultNotificationSettings
                                     ELSE Completed(call.file, DefaultNotificationSettings)

\* the keys each load fills in
FilledConfigKeys ==
    {"ignoreOtherSpotters", "notificationSoundPath", "maxNotificationCount", "maxPopupCount"}

FilledSettingsKeys == {"soundEnabled", "voicevoxEnabled"}

\* the document with the defaults for the keys among filled that it lacks
Filled(file, defaults, filled) ==
    [k \in (DOMAIN file) \cup filled |-> IF k \in DOMAIN file THEN file[k] ELSE defaults[k]]

\* C20: a load always ends with an object. After an error it is the defaults. On
\* a document that lacks keys, the keys present are kept; loadConfig gives the
\* default to a missing ignoreOtherSpotters, notificationSoundPath,
\* maxNotificationCount and maxPopupCount, and loadNotificationSettings to a
\* missing soundEnabled and voicevoxEnabled; a missing field filter,
\* notificationEnabled or popupEnabled stays missing.
C20_LoadDefaults ==
    ret.done =>
        /\ call.fn = "loadConfig" =>
              /\ filterConfig # Null
              /\ filterConfig = IF call.file \in ReadFailures THEN DefaultConfig
                                ELSE Filled(call.file, DefaultConfig, FilledConfigKeys)
        /\ call.fn = "loadNotificationSettings" =>
              notificationSettings = IF call.file \in ReadFailures
                                     THEN DefaultNotificationSettings
                                     ELSE Filled(call.file, DefaultNotificationSettings,
                                                 FilledSettingsKeys)

\* a document with a mode filter and a popup cap only: both are kept, the other
\* cap is 0 and there is no reference filter
C20_Witness ==
    /\ ret.done
    /\ call.fn = "loadConfig"
    /\ DOMAIN call.file = {"mode", "maxPopupCount"}
    /\ call.file.maxPopupCount = MaxCap
    /\ filterConfig.mode = ModeFilter
    /\ filterConfig.maxPopupCount = MaxCap
    /\ filterConfig.maxNotificationCount = 0
    /\ "reference" \notin DOMAIN filterConfig

-----------------------------------------------------------------------------
(* saveConfig and saveNotificationSettings, the write succeeding or failing *)

\* a session that has loaded its files, and a save request with its outcome
SaveInit ==
    /\ Construction
    /\ \/ \E config \in ConfigInputs \ {Null}, file \in LoadConfigFiles,
             written \in BOOLEAN :
                call = [fn |-> "saveConfig", config |-> config, written |-> written,
                        file |-> file]
       \/ \E settings \in SettingsInputs, file \in LoadSettingsFiles,
             written \in BOOLEAN :
                call = [fn |-> "saveNotificationSettings", settings |-> settings,
                        written |-> written, file |-> file]
    /\ ret = NoRet

\* app.whenReady() in this session: the two loads
SaveReady ==
    /\ ~appReady
    /\ filterConfig' = IF call.fn = "saveConfig" THEN loadConfig(call.file)
                       ELSE DefaultConfig
    /\ notificationSettings' = IF call.fn = "saveNotificationSettings"
                               THEN loadNotificationSettings(call.file)
                               ELSE DefaultNotificationSettings
    /\ appReady' = TRUE
    /\ UNCHANGED <<knownSpotIds, cycles, effect, insertLog, nextSpotId, call, ret>>

CallSaveConfig ==
    /\ appReady
    /\ call.fn = "saveConfig"
    /\ ~ret.done
    /\ LET saved == saveConfig(call.config, call.written)
       IN  /\ filterConfig' = saved.filterConfig
           /\ ret' = Returned(saved.result)
    /\ UNCHANGED <<notificationSettings, knownSpotIds, appReady, cycles, effect,
                   insertLog, nextSpotId, call>>

CallSaveNotificationSettings ==
    /\ appReady
    /\ call.fn = "saveNotificationSettings"
    /\ ~ret.done
    /\ LET saved == saveNotificationSettings(call.settings, call.written)
       IN  /\ notificationSettings' = saved.notificationSettings
           /\ ret' = Returned(saved.result)
    /\ UNCHANGED <<filterConfig, knownSpotIds, appReady, cycles, effect,
                   insertLog, nextSpotId, call>>

SaveNext == SaveReady \/ CallSaveConfig \/ CallSaveNotificationSettings

SpecSave == SaveInit /\ [][SaveNext]_vars

\* C28, as claimed: a save whose write fails returns success: false and leaves
\* the filterConfig (the notificationSettings) of the session as it was.
C28_FailedSaveKeepsState ==
    [][(ret'.done /\ ~ret.done /\ ~call.written)
          => /\ ~ret'.value.success
             /\ filterConfig' = filterConfig
             /\ notificationSettings' = notificationSettings]_vars

-----------------------------------------------------------------------------
(* The session with the speech channel on: the configuration and the channel *)
(* settings are those of the files read at the start.                        *)

SpeechConfigFiles ==
    {[error |-> "ENOENT"],
     [mode |-> ModeFilter, notificationSoundPath |-> <<"w">>, maxNotificationCount |-> 1]}

SpeechSettingsFiles ==
    {[notificationEnabled |-> TRUE, popupEnabled |-> TRUE, voicevoxEnabled |-> TRUE],
     [notificationEnabled |-> FALSE, popupEnabled |-> FALSE,
      soundEnabled |-> TRUE, voicevoxEnabled |-> TRUE],
     [notificationEnabled |-> TRUE, popupEnabled |-> TRUE,
      soundEnabled |-> TRUE, voicevoxEnabled |-> TRUE]}

\* what the voice settings file may hold
VoicevoxFiles ==
    {[error |-> "ENOENT"],
     [speakerId |-> SpeakerId(0)],
     [speakerId |-> SpeakerId(1)],
     [speakerId |-> SpeakerId(1), maxSpotsPerRead |-> 1]}

SpeechNext ==
    \/ AppReady(SpeechConfigFiles, SpeechSettingsFiles)
    \/ Poll(Batches)
    \/ SoundDone
    \/ SpeechSettingsLoaded(VoicevoxFiles)
    \/ SynthesisDone
    \/ PlaybackDone

SpecSpeech == Init /\ [][SpeechNext]_vars

\* C12: a batch without a record that is new and accepted calls no channel: no
\* sound, no alert, no popup, no synthesis; processSpots goes straight to its end.
C12_EmptyBatchSilent ==
    (effect.kind = "loop" /\ Len(effect.filteredSpots) = 0)
        => /\ effect.soundCalls = 0
           /\ ~effect.dispatched
           /\ effect.alerts = <<>>
           /\ effect.popups = <<>>
           /\ effect.speechSpots = <<>>
           /\ effect.synth = <<>>
           /\ effect.play = <<>>
           /\ effect.pc = "done"

\* new records, all rejected, with sound and speech on and a sound configured
C12_Witness ==
    /\ effect.kind = "loop"
    /\ Len(effect.newIds) > 0
    /\ Len(effect.evaluated) > 0
    /\ Len(effect.filteredSpots) = 0
    /\ notificationSettings.soundEnabled
    /\ notificationSettings.voicevoxEnabled
    /\ hasCustomSound(filterConfig)
    /\ effect.pc = "done"

\* C13, as claimed: with speech on, a speaker configured and n filtered records,
\* the speech list is the first min(maxSpotsPerRead, n) of the filtered records
\* (all n when the cap is 0), whatever the alerts and popups were; synthesis is
\* called for its entries in order, for an entry only after the playback of the
\* one before has ended, and for all of them when every call succeeds.
C13_SpeechQueue ==
    /\ (effect.kind = "resume" /\ effect.from = "settings" /\ effect.speakerId # Null)
          => /\ IdsOf(effect.spotsToRead)
                   = HeadOf(IdsOf(effect.filteredSpots), effect.maxSpotsPerRead)
             /\ effect.synth = <<effect.filteredSpots[1].spotId>>
    /\ (effect.kind = "resume" /\ effect.from \in {"settings", "synth", "play"}
         /\ effect.synth # <<>>)
          => /\ effect.synth = <<effect.spotsToRead[effect.index].spotId>>
             /\ effect.synthLog = SubSeq(IdsOf(effect.spotsToRead), 1, effect.index)
             /\ effect.index > 1 => \/ effect.from = "play" /\ effect.ok
                                    \/ effect.from = "synth" /\ ~effect.ok
    /\ (effect.kind = "resume" /\ effect.from = "play" /\ effect.ok
         /\ effect.pc = "done")
          => effect.synthLog = IdsOf(effect.spotsToRead)

\* C14, as claimed: at no time are two utterances of poll cycles playing.
C14_NoOverlappingSpeech ==
    Cardinality({k \in DOMAIN cycles : cycles[k].pc = "play"}) <= 1

\* C15, as claimed: processSpots never starts on a batch while an earlier
\* invocation is still dispatching (suspended at its sound or in its speech).
C15_NoOverlappingCycles ==
    effect.kind = "loop" => Len(cycles) = IF effect.pc = "done" THEN 0 ELSE 1

\* C16: when synthesizeVoicevox fails for an entry, nothing is played for it and
\* the loop goes on: synthesis is called for the next entry of the list, and the
\* loop ends only after the last one; no alert or popup call is part of it. Unless
\* a playback fails, synthesis has been called for every entry, in order, when the
\* loop ends.
C16_SynthesisFailureSkipped ==
    /\ (effect.kind = "resume" /\ effect.from = "synth" /\ ~effect.ok)
          => /\ effect.play = <<>>
             /\ ~effect.aborted
             /\ ~effect.dispatched /\ effect.alerts = <<>> /\ effect.popups = <<>>
             /\ effect.pc \in {"synth", "done"}
             /\ effect.pc = "synth"
                   => /\ effect.synth = <<effect.spotsToRead[effect.index].spotId>>
                      /\ effect.index = Len(effect.synthLog)
             /\ effect.pc = "done" => effect.index = Len(effect.spotsToRead)
    /\ (effect.kind = "resume" /\ effect.from \in {"synth", "play"}
         /\ effect.pc = "done" /\ ~effect.aborted)
          => effect.synthLog = IdsOf(effect.spotsToRead)

\* the synthesis of the first of two entries failed, and the second is synthesized
C16_Witness ==
    /\ effect.kind = "resume"
    /\ effect.from = "synth"
    /\ ~effect.ok
    /\ Len(effect.spotsToRead) = 2
    /\ effect.index = 2
    /\ effect.pc = "synth"
    /\ effect.synth = <<effect.spotsToRead[2].spotId>>

\* C22, as claimed: when the playback of an entry fails, only that entry is lost:
\* the loop goes on to the synthesis of the next entry of the list, it ends only
\* after the last one, and processSpots then runs to its end, eviction included.
C22_PlaybackFailureSkipped ==
    (effect.kind = "resume" /\ effect.from = "play" /\ ~effect.ok)
        => /\ effect.pc \in {"synth", "done"}
           /\ effect.pc = "synth"
                 => effect.synth = <<effect.spotsToRead[effect.index].spotId>>
           /\ effect.pc = "done"
                 => /\ effect.synthLog = IdsOf(effect.spotsToRead)
                    /\ Len(knownSpotIds) <= KnownLimit

\* every promise processSpots awaits settles: the sound and the playback in the
\* window end or fail, the settings file is read or not, and a synthesis request
\* resolves, rejects or times out
Settles ==
    \A k \in 1..MaxInFlight :
        /\ WF_vars(SoundDoneAt(k))
        /\ WF_vars(SpeechSettingsLoadedAt(k, VoicevoxFiles))
        /\ WF_vars(SynthesisDoneAt(k))
        /\ WF_vars(PlaybackDoneAt(k))

LiveSpeech == SpecSpeech /\ Settles

\* the invocation whose first filtered record has this id is suspended at an await
\* (the filtered lists of the invocations of a session share no record)
Awaiting(id) == \E k \in DOMAIN cycles : cycles[k].filteredSpots[1].spotId = id

\* the step just taken is the last one of that invocation: it ran to the end of
\* processSpots, where the index is cut to the limit
Finished(id) ==
    /\ effect.kind # "none"
    /\ effect.pc = "done"
    /\ effect.filteredSpots # <<>>
    /\ effect.filteredSpots[1].spotId = id
    /\ Len(knownSpotIds) <= KnownLimit

\* C23: every invocation of processSpots that waits at an await reaches its end,
\* the promises it awaits settling; a synthesis that fails or times out costs its
\* entry only.
C23_CycleCompletes == \A id \in 1..MaxSpotId : Awaiting(id) ~> Finished(id)

\* an invocation ends in the step that resumes from the failed synthesis of its
\* last entry
C23_Witness ==
    /\ effect.kind = "resume"
    /\ effect.from = "synth"
    /\ ~effect.ok
    /\ effect.pc = "done"
    /\ effect.index = Len(effect.spotsToRead)

\* the subsequence of calls made on one channel, as ids
RECURSIVE OnChannel(_, _)
OnChannel(calls, channel) ==
    IF calls = <<>> THEN <<>>
    ELSE (IF Head(calls).channel = channel THEN <<Head(calls).spotId>> ELSE <<>>)
         \o OnChannel(Tail(calls), channel)

\* ids is made of entries of of, in the order they have there
RECURSIVE InOrderOf(_, _)
InOrderOf(ids, of) ==
    IF ids = <<>> THEN TRUE
    ELSE IF of = <<>> THEN FALSE
    ELSE IF Head(ids) = Head(of) THEN InOrderOf(Tail(ids), Tail(of))
    ELSE InOrderOf(ids, Tail(of))

\* C24: within a batch the sound is called in a step before the one of the alerts
\* and popups; in that step every alert call comes before the first popup call;
\* synthesis is called only in steps after it; and on each channel the records
\* come in the order of the batch.
C24_ChannelOrder ==
    effect.kind # "none" =>
        /\ effect.soundCalls > 0 => (~effect.dispatched /\ effect.synth = <<>>)
        /\ effect.dispatched =>
              /\ effect.soundCalls = 0
              /\ effect.synth = <<>> /\ effect.synthLog = <<>>
              /\ OnChannel(effect.shown, "alert") = IdsOf(effect.alerts)
              /\ OnChannel(effect.shown, "popup") = IdsOf(effect.popups)
              /\ Len(effect.shown) = Len(effect.alerts) + Len(effect.popups)
              /\ \A i, j \in DOMAIN effect.shown :
                    (effect.shown[i].channel = "alert" /\ effect.shown[j].channel = "popup")
                        => i < j
              /\ InOrderOf(IdsOf(effect.alerts), IdsOf(effect.filteredSpots))
              /\ InOrderOf(IdsOf(effect.popups), IdsOf(effect.filteredSpots))
        /\ effect.synth # <<>> =>
              /\ ~effect.dispatched
              /\ effect.from \in {"settings", "synth", "play"}
              /\ InOrderOf(effect.synthLog, IdsOf(effect.filteredSpots))

\* an alert and a popup in the step after the sound, with speech to follow
C24_Witness ==
    /\ effect.kind = "resume"
    /\ effect.from = "sound"
    /\ effect.dispatched
    /\ Len(effect.shown) = 2
    /\ effect.shown[1].channel = "alert"
    /\ effect.shown[2].channel = "popup"
    /\ effect.pc = "settings"

\* C29, as claimed: the speech channel makes no synthesis call exactly when
\* speech is off, the filtered list is empty or no speaker is configured (null or
\* absent); with any speaker id configured, 0 included, the first entry of the
\* list is synthesized once the settings are read.
C29_SpeechSkipped ==
    /\ (effect.kind # "none" /\ effect.dispatched)
          => (effect.pc = "settings"
                 <=> (/\ Truthy(notificationSettings, "voicevoxEnabled")
                      /\ effect.filteredSpots # <<>>))
    /\ (effect.kind = "resume" /\ effect.from = "settings")
          => (effect.synth = <<>> <=> effect.speakerId = Null)

-----------------------------------------------------------------------------
(* The session with the channels switched on and off while it runs          *)

ToggleSettings ==
    {DefaultNotificationSettings,
     [notificationEnabled |-> TRUE, popupEnabled |-> TRUE,
      soundEnabled |-> TRUE, voicevoxEnabled |-> TRUE]}

ToggleNext ==
    \/ AppReady(SpeechConfigFiles, {[error |-> "ENOENT"]})
    \/ Poll(Batches)
    \/ SoundDone
    \/ SpeechSettingsLoaded({[speakerId |-> SpeakerId(1)]})
    \/ SynthesisDone
    \/ PlaybackDone
    \/ SaveNotificationSettings(ToggleSettings)

SpecToggle == Init /\ [][ToggleNext]_vars

\* C30, as claimed: no alert is shown while notificationEnabled is false, no popup
\* created while popupEnabled is false, no custom sound called while soundEnabled
\* is false and no synthesis called while voicevoxEnabled is false.
C30_AsClaimed ==
    effect.kind # "none" =>
        /\ ~Truthy(notificationSettings, "notificationEnabled") => effect.alerts = <<>>
        /\ ~Truthy(notificationSettings, "popupEnabled") => effect.popups = <<>>
        /\ ~Truthy(notificationSettings, "soundEnabled") => effect.soundCalls = 0
        /\ ~Truthy(notificationSettings, "voicevoxEnabled") => effect.synth = <<>>

\* C30, amended: no alert is shown while notificationEnabled is false, no popup
\* created while popupEnabled is false and no custom sound called while
\* soundEnabled is false; a batch dispatched while voicevoxEnabled is false starts
\* no speech (synthesis is called only for batches dispatched with the flag on).
\* With all four off a batch puts out nothing, and its new records are in
\* knownSpotIds all the same: no record an earlier batch held is accepted again.
C30_DisabledChannelSilent ==
    effect.kind # "none" =>
        /\ ~Truthy(notificationSettings, "notificationEnabled") => effect.alerts = <<>>
        /\ ~Truthy(notificationSettings, "popupEnabled") => effect.popups = <<>>
        /\ ~Truthy(notificationSettings, "soundEnabled") => effect.soundCalls = 0
        /\ (effect.dispatched /\ ~Truthy(notificationSettings, "voicevoxEnabled"))
              => (effect.speechSpots = <<>> /\ effect.pc = "done")
        /\ effect.synth # <<>> => effect.from \in {"settings", "synth", "play"}
        /\ (effect.kind = "loop" /\ notificationSettings = DefaultNotificationSettings)
              => /\ effect.soundCalls = 0 /\ effect.shown = <<>> /\ effect.synth = <<>>
                 /\ effect.pc = "done"
        /\ effect.kind = "loop"
              => /\ Range(effect.newIds) \subseteq Range(knownSpotIds)
                 /\ \A r \in effect.resubmitted :
                       r.spotId \notin Range(IdsOf(effect.filteredSpots))

\* with all four channels off two new records are accepted and nothing is put out;
\* both are in the index
C30_Witness ==
    /\ effect.kind = "loop"
    /\ notificationSettings = DefaultNotificationSettings
    /\ Len(effect.filteredSpots) = 2
    /\ effect.dispatched
    /\ effect.shown = <<>>
    /\ effect.pc = "done"
    /\ Range(IdsOf(effect.filteredSpots)) \subseteq Range(knownSpotIds)

-----------------------------------------------------------------------------
(* The session on a long feed: a backlog in blocks, then short batches of     *)
(* fresh records and of records fed before. No sound and no speech, so every       *)
(* processSpots invocation runs to its return in one step.                   *)

\* the oldest record, a record the mode filter rejects, and the next fresh one
LongFeedIds == {1, 2, nextSpotId}

LongFeedBatches ==
    IF nextSpotId <= Backlog
    THEN {[i \in 1..Min(Block, Backlog - nextSpotId + 1) |-> nextSpotId + i - 1]}
    ELSE {ids \in UNION {[1..n -> LongFeedIds] : n \in 1..MaxBatch} :
             \A i, j \in DOMAIN ids : i # j => ids[i] # ids[j]}

LongFeedConfigFiles == {[error |-> "ENOENT"], [mode |-> ModeFilter]}

LongFeedConfigs == {Null, DefaultConfig, [DefaultConfig EXCEPT !.mode = ModeFilter]}

LongFeedSettingsFiles == {[notificationEnabled |-> TRUE, popupEnabled |-> TRUE]}

NoveltyNext ==
    \/ AppReady(LongFeedConfigFiles, LongFeedSettingsFiles)
    \/ (Len(insertLog) < MaxInserted /\ Poll(LongFeedBatches))
    \/ SaveConfig(LongFeedConfigs)

SpecNovelty == Init /\ [][NoveltyNext]_vars

C2_BoundedIndex ==
    (effect.kind # "none" /\ effect.pc = "done")
        => /\ Len(knownSpotIds) <= KnownLimit
           /\ knownSpotIds = IF Len(insertLog) > KnownLimit
                             THEN SubSeq(insertLog, Len(insertLog) - KnownLimit + 1,
                                         Len(insertLog))
                             ELSE insertLog

\* 1001 distinct ids were fed: 1000 are left, and the first one is gone
C2_Witness ==
    /\ effect.kind # "none"
    /\ effect.pc = "done"
    /\ Len(insertLog) = KnownLimit + 1
    /\ Cardinality(Range(insertLog)) = KnownLimit + 1
    /\ Len(knownSpotIds) = KnownLimit
    /\ insertLog[1] \notin Range(knownSpotIds)
    /\ knownSpotIds[1] = insertLog[2]

\* the ids of the batch a loop step worked on: those it inserted and those an
\* earlier batch had inserted
BatchOf(step) == Range(step.newIds) \cup {r.spotId : r \in step.resubmitted}

\* C25, as claimed: after a cycle every id of its batch is in knownSpotIds (so
\* that the same batch fed again holds no new record).
C25_AsClaimed ==
    (effect.kind = "loop" /\ effect.pc = "done")
        => \A spotId \in BatchOf(effect) : spotId \in Range(knownSpotIds)

\* C25, amended: after a cycle an id of its batch is in knownSpotIds exactly when
\* it is among the last 1000 ids inserted; and a cycle on the same batch as the
\* cycle before, none of whose ids was evicted, inserts nothing, evaluates
\* nothing and calls no channel.
C25_IdempotentPoll ==
    [][(effect'.kind = "loop" /\ effect'.pc = "done")
          => /\ \A spotId \in BatchOf(effect') :
                   spotId \in Range(knownSpotIds')
                       <=> Len(insertLog') - LastInsertion(spotId, insertLog') < KnownLimit
             /\ (/\ effect.kind = "loop"
                 /\ BatchOf(effect) = BatchOf(effect')
                 /\ BatchOf(effect) \subseteq Range(knownSpotIds))
                   => /\ effect'.newIds = <<>>
                      /\ effect'.evaluated = <<>>
                      /\ effect'.filteredSpots = <<>>
                      /\ effect'.soundCalls = 0
                      /\ ~effect'.dispatched
                      /\ knownSpotIds' = knownSpotIds]_vars

\* past the limit, a batch whose record is still in the index while the record
\* inserted before it is not: nothing is inserted
C25_Witness ==
    /\ effect.kind = "loop"
    /\ effect.pc = "done"
    /\ Len(insertLog) > KnownLimit
    /\ BatchOf(effect) = {2}
    /\ 1 \notin Range(knownSpotIds)
    /\ effect.newIds = <<>>
    /\ BatchOf(effect) \subseteq Range(knownSpotIds)

====
